---- MODULE Spec2Model ----
(***************************************************************************)
(* Ranked queue, rating and leaderboard services of the site               *)
(* (src/src/server/services/leaderboard.ts, which holds both               *)
(* LeaderboardService and QueueService, and the elo service in             *)
(* src/unnamed/part_005).                                                  *)
(*                                                                         *)
(* Every request handler is a process; each `await` of a handler is one    *)
(* step, so the steps of overlapping requests interleave at exactly the    *)
(* places where the Node event loop may switch between them.               *)
(***************************************************************************)
EXTENDS Integers, Sequences, FiniteSets, TLC

\* ------------------------------------------------------------------ bounds
NumProcs == 2
NumPlayers == 2
MaxCalls == 3
MaxCompletes == 2
MaxTime == 1
NumJoiners == 4
NumFifo == 3
MaxFifoTime == 2
MaxLBCalls == 2
MaxRatingCalls == 3
MaxResult2 == 3
MinElo == 500
MaxElo == 1600
EloStep == 25
TsWidth == 6
MaxSnapRefreshes == 2
MaxSnapQueries == 1
MaxLimit == 2
MaxSeasonRefreshes == 1
MaxSeasonCalls == 3
MaxProvisionalCalls == 2
MaxSeqCalls == 5
NumRematchGames == 3

Modes == {"standard", "vanilla"}

\* ------------------------------------------------------- program constants
K_FACTOR == 32
PROVISIONAL_K_FACTOR == 64
PROVISIONAL_THRESHOLD == 10
DEFAULT_RATING == 1000
ELO_SCALE == 400
CACHE_TTL == 180
MsPerSecond == 1000

VARIABLES
  queue_entries,   \* table queue_entries: row id = position
  matches,         \* table matches: row id = position
  player_ratings,  \* table player_ratings, keyed by <<playerId, gameMode>>
  playerState,     \* redis key player:<id>:state
  emitted,         \* number of state-change events published per player
  now,             \* wall clock (new Date(), Date.now())
  pc,              \* per request: the await it is suspended at
  loc,             \* per request: the handler's local variables
  ncalls,          \* requests issued so far
  horizon,         \* the last clock value of the run
  solo,            \* the call that has run so far with no other request stepping
  done,            \* set in the state right after such a call returned
  last,            \* the undisturbed call that returned before it
  mpw,             \* as solo, for one matchPlayers invocation
  mpdone,          \* as done, for one matchPlayers invocation
  lbCache,         \* redis keys raw:leaderboard:<queue>
  lbZSet,          \* redis keys zset:leaderboard:<queue>
  lbUser,          \* redis hashes user:<id>:<queue>
  lbSnapshots,     \* table leaderboard_snapshots
  lbMeta,          \* table metadata: the snapshot_leaderboard_<queue>_<ts> rows
  lbBackup,        \* table metadata: the backup_leaderboard_<queue> rows
  lbPc,            \* the leaderboard request: the await it is suspended at
  lbLoc,           \* the leaderboard request: its local variables
  lbCalls,         \* leaderboard requests issued so far
  lbRes,           \* outcome of the leaderboard request that returned last
  elo,             \* one evaluation of the rating formulas: inputs and results
  season           \* the season 2 snapshot file and the service's two Map caches

qvars == <<queue_entries, matches, player_ratings, playerState, emitted,
           pc, loc, ncalls, horizon, solo, done, last, mpw, mpdone>>
lbvars == <<lbCache, lbZSet, lbUser, lbSnapshots, lbMeta, lbBackup,
            lbPc, lbLoc, lbCalls, lbRes, season>>
vars == <<queue_entries, matches, player_ratings, playerState, emitted, now,
          pc, loc, ncalls, horizon, solo, done, last, mpw, mpdone,
          lbCache, lbZSet, lbUser, lbSnapshots, lbMeta, lbBackup,
          lbPc, lbLoc, lbCalls, lbRes, elo, season>>

PlayerIds == DOMAIN playerState
\* The request handlers that may be in flight at the same time.
Procs == 1..NumProcs

\* ------------------------------------------------------------ Rating Engine
\* 10^(r/400) for r = 0..399, in millionths (Math.pow(10, x / 400)).
Pow10Frac ==
<<
   1000000, 1005773, 1011579, 1017419, 1023293, 1029201, 1035142, 1041118, 1047129, 1053174,
   1059254, 1065369, 1071519, 1077705, 1083927, 1090184, 1096478, 1102808, 1109175, 1115578,
   1122018, 1128496, 1135011, 1141563, 1148154, 1154782, 1161449, 1168154, 1174898, 1181680,
   1188502, 1195364, 1202264, 1209205, 1216186, 1223207, 1230269, 1237371, 1244515, 1251699,
   1258925, 1266193, 1273503, 1280855, 1288250, 1295687, 1303167, 1310690, 1318257, 1325867,
   1333521, 1341220, 1348963, 1356751, 1364583, 1372461, 1380384, 1388353, 1396368, 1404430,
   1412538, 1420692, 1428894, 1437143, 1445440, 1453784, 1462177, 1470618, 1479108, 1487647,
   1496236, 1504874, 1513561, 1522299, 1531087, 1539927, 1548817, 1557758, 1566751, 1575796,
   1584893, 1594043, 1603245, 1612501, 1621810, 1631173, 1640590, 1650061, 1659587, 1669168,
   1678804, 1688496, 1698244, 1708048, 1717908, 1727826, 1737801, 1747833, 1757924, 1768072,
   1778279, 1788546, 1798871, 1809256, 1819701, 1830206, 1840772, 1851399, 1862087, 1872837,
   1883649, 1894524, 1905461, 1916461, 1927525, 1938653, 1949845, 1961101, 1972423, 1983810,
   1995262, 2006781, 2018366, 2030019, 2041738, 2053525, 2065380, 2077304, 2089296, 2101358,
   2113489, 2125690, 2137962, 2150305, 2162719, 2175204, 2187762, 2200392, 2213095, 2225871,
   2238721, 2251645, 2264644, 2277718, 2290868, 2304093, 2317395, 2330773, 2344229, 2357762,
   2371374, 2385064, 2398833, 2412682, 2426610, 2440619, 2454709, 2468880, 2483133, 2497468,
   2511886, 2526388, 2540973, 2555642, 2570396, 2585235, 2600160, 2615170, 2630268, 2645453,
   2660725, 2676086, 2691535, 2707073, 2722701, 2738420, 2754229, 2770129, 2786121, 2802206,
   2818383, 2834654, 2851018, 2867477, 2884032, 2900681, 2917427, 2934270, 2951209, 2968247,
   2985383, 3002617, 3019952, 3037386, 3054921, 3072557, 3090295, 3108136, 3126079, 3144126,
   3162278, 3180534, 3198895, 3217363, 3235937, 3254618, 3273407, 3292305, 3311311, 3330428,
   3349654, 3368992, 3388442, 3408003, 3427678, 3447466, 3467369, 3487386, 3507519, 3527768,
   3548134, 3568617, 3589219, 3609940, 3630781, 3651741, 3672823, 3694026, 3715352, 3736801,
   3758374, 3780071, 3801894, 3823843, 3845918, 3868121, 3890451, 3912911, 3935501, 3958221,
   3981072, 4004055, 4027170, 4050419, 4073803, 4097321, 4120975, 4144766, 4168694, 4192760,
   4216965, 4241310, 4265795, 4290422, 4315191, 4340103, 4365158, 4390359, 4415704, 4441197,
   4466836, 4492623, 4518559, 4544645, 4570882, 4597270, 4623810, 4650504, 4677351, 4704354,
   4731513, 4758828, 4786301, 4813933, 4841724, 4869675, 4897788, 4926063, 4954502, 4983105,
   5011872, 5040806, 5069907, 5099176, 5128614, 5158222, 5188000, 5217951, 5248075, 5278372,
   5308844, 5339493, 5370318, 5401321, 5432503, 5463865, 5495409, 5527134, 5559043, 5591135,
   5623413, 5655878, 5688529, 5721370, 5754399, 5787620, 5821032, 5854637, 5888437, 5922431,
   5956621, 5991009, 6025596, 6060382, 6095369, 6130558, 6165950, 6201546, 6237348, 6273357,
   6309573, 6345999, 6382635, 6419482, 6456542, 6493816, 6531306, 6569011, 6606934, 6645077,
   6683439, 6722023, 6760830, 6799860, 6839116, 6878599, 6918310, 6958250, 6998420, 7038822,
   7079458, 7120328, 7161434, 7202778, 7244360, 7286182, 7328245, 7370552, 7413102, 7455899,
   7498942, 7542234, 7585776, 7629569, 7673615, 7717915, 7762471, 7807284, 7852356, 7897688,
   7943282, 7989139, 8035261, 8081649, 8128305, 8175230, 8222426, 8269895, 8317638, 8365656,
   8413951, 8462526, 8511380, 8560517, 8609938, 8659643, 8709636, 8759917, 8810489, 8861352,
   8912509, 8963962, 9015711, 9067760, 9120108, 9172759, 9225714, 9278975, 9332543, 9386420,
   9440609, 9495110, 9549926, 9605058, 9660509, 9716280, 9772372, 9828789, 9885531, 9942601 >>

\* 10^n for a natural n.
RECURSIVE Pow10(_)
Pow10(n) == IF n = 0 THEN 1 ELSE 10 * Pow10(n - 1)

\* 10^(-a/400) in millionths, rounded, for a rating difference a >= 0:
\* with a = 400 n + r it is 10^((400 - r)/400) / 10^(n + 1).
Pow10Neg(a) ==
  LET n == a \div ELO_SCALE
      r == a % ELO_SCALE
  IN IF r = 0 THEN 1000000 \div Pow10(n)
     ELSE (Pow10Frac[(ELO_SCALE - r) + 1] + (Pow10(n + 1) \div 2)) \div Pow10(n + 1)

\* The formula without the sign of the rating difference.
calculateExpectedScoreAbs(playerRating, opponentRating) ==
  LET d == opponentRating - playerRating
      z == Pow10Neg(IF d >= 0 THEN d ELSE 0 - d)
  IN <<z, 1000000 + z>>

\* 1 / (1 + 10^((opponentRating - playerRating) / 400)) as a fraction
\* <<num, den>>: z / (1 + z) when the opponent is rated at least as high and
\* 1 / (1 + z) otherwise, z being 10^(-|difference|/400).
calculateExpectedScore(playerRating, opponentRating) ==
  LET d == opponentRating - playerRating
      z == Pow10Neg(IF d >= 0 THEN d ELSE 0 - d)
  IN IF d >= 0 THEN <<z, 1000000 + z>> ELSE <<1000000, 1000000 + z>>

\* Math.floor in place of Math.round.
calculateNewRatingFloor(currentRating, expectedScore, actual2, gamesPlayed) ==
  LET kFactor == IF gamesPlayed < PROVISIONAL_THRESHOLD
                 THEN PROVISIONAL_K_FACTOR ELSE K_FACTOR
      num == kFactor * (actual2 * expectedScore[2] - 2 * expectedScore[1])
      den == 2 * expectedScore[2]
  IN currentRating + (num \div den)

\* The established K-factor for every player, provisional or not.
calculateNewRatingFixedK(currentRating, expectedScore, actual2, gamesPlayed) ==
  LET num == K_FACTOR * (actual2 * expectedScore[2] - 2 * expectedScore[1])
      den == 2 * expectedScore[2]
  IN currentRating + ((num + expectedScore[2]) \div den)

\* Math.round(currentRating + kFactor * (actualScore - expectedScore)); the
\* actual score is passed doubled (0, 1, 2 for 0, 0.5, 1); Math.round rounds
\* halves up: floor(x + 1/2).
calculateNewRating(currentRating, expectedScore, actual2, gamesPlayed) ==
  LET kFactor == IF gamesPlayed < PROVISIONAL_THRESHOLD
                 THEN PROVISIONAL_K_FACTOR ELSE K_FACTOR
      num == kFactor * (actual2 * expectedScore[2] - 2 * expectedScore[1])
      den == 2 * expectedScore[2]
  IN currentRating + ((num + expectedScore[2]) \div den)

\* ------------------------------------------------------------- Durable Store
NoRating == [exists |-> FALSE, rating |-> 0, gamesPlayed |-> 0, wins |-> 0,
             losses |-> 0, draws |-> 0, peakRating |-> 0]

\* const newRating = { rating: 1000, gamesPlayed: 0, ..., peakRating: 1000 }
newRating == [exists |-> TRUE, rating |-> DEFAULT_RATING, gamesPlayed |-> 0,
              wins |-> 0, losses |-> 0, draws |-> 0, peakRating |-> DEFAULT_RATING]

\* An absent redis key, and the PlayerState values the service writes.
NoState == [status |-> "none", queueStartTime |-> -1, opponentId |-> 0, startTime |-> -1]
Queuing(t) == [status |-> "queuing", queueStartTime |-> t, opponentId |-> 0, startTime |-> -1]
\* An in_game state that names no opponent.
InGameNoOpponent(opp, t) ==
  [status |-> "in_game", queueStartTime |-> -1, opponentId |-> 0, startTime |-> t]
InGame(opp, t) == [status |-> "in_game", queueStartTime |-> -1, opponentId |-> opp, startTime |-> t]
Idle == [status |-> "idle", queueStartTime |-> -1, opponentId |-> 0, startTime |-> -1]

Store == [queue_entries |-> queue_entries, matches |-> matches,
          player_ratings |-> player_ratings, playerState |-> playerState,
          emitted |-> emitted]

\* Keeps the stored value whatever the new one is.
MaxKeepsFirst(a, b) == a

Max(a, b) == IF a >= b THEN a ELSE b

\* The player's rows whatever their status.
WaitingOfAnyStatus(entries, p) ==
  {e \in DOMAIN entries : entries[e].playerId = p}

\* where status = 'waiting' and playerId = p
WaitingOf(entries, p) ==
  {e \in DOMAIN entries : entries[e].playerId = p /\ entries[e].status = "waiting"}

\* where gameMode = m and status = 'waiting'
WaitingIn(entries, m) ==
  {e \in DOMAIN entries : entries[e].gameMode = m /\ entries[e].status = "waiting"}

\* The two newest waiting rows instead of the two oldest.
FirstTwoDesc(entries, m) ==
  LET W == WaitingIn(entries, m)
  IN {s \in W \X W :
        /\ s[1] # s[2]
        /\ entries[s[1]].joinedAt >= entries[s[2]].joinedAt
        /\ \A c \in W \ {s[1], s[2]} : entries[s[2]].joinedAt >= entries[c].joinedAt}

\* ... orderBy(asc(joinedAt)).limit(2): every pair of rows the database may
\* return; rows with equal joinedAt come in any order.
FirstTwoAsc(entries, m) ==
  LET W == WaitingIn(entries, m)
  IN {s \in W \X W :
        /\ s[1] # s[2]
        /\ entries[s[1]].joinedAt <= entries[s[2]].joinedAt
        /\ \A c \in W \ {s[1], s[2]} : entries[s[2]].joinedAt <= entries[c].joinedAt}

\* The two oldest waiting rows of any mode.
QueuedPlayersAnyMode(entries, m) ==
  LET W == {e \in DOMAIN entries : entries[e].status = "waiting"}
  IN {s \in W \X W :
        /\ s[1] # s[2]
        /\ entries[s[1]].joinedAt <= entries[s[2]].joinedAt
        /\ \A c \in W \ {s[1], s[2]} : entries[s[2]].joinedAt <= entries[c].joinedAt}

QueuedPlayers(entries, m) == FirstTwoAsc(entries, m)

\* select().from(matches).orderBy(desc(gameNumber)).limit(1);
\* lastMatch.length > 0 ? lastMatch[0].gameNumber + 1 : 1
RECURSIVE MaxGameNumber(_, _)
MaxGameNumber(ms, n) ==
  IF n = 0 THEN 0 ELSE Max(ms[n].gameNumber, MaxGameNumber(ms, n - 1))

getNextGameNumber(ms) ==
  IF Len(ms) > 0 THEN MaxGameNumber(ms, Len(ms)) + 1 ELSE 1

\* ------------------------------------------------------- request bookkeeping
NoArgs == [playerId |-> 0, gameMode |-> "", matchId |-> 0, winnerId |-> 0]
NoSel == [id |-> 0, playerId |-> 0]
NoLoc == [op |-> "none", args |-> NoArgs, ts |-> -1, entry |-> 0,
          player1 |-> NoSel, player2 |-> NoSel, gameNumber |-> 0, match |-> 0,
          player1Id |-> 0, player2Id |-> 0, gameMode |-> "", result2 |-> 1,
          player1Rating |-> NoRating, player2Rating |-> NoRating]

EmptyStore == [queue_entries |-> <<>>, matches |-> <<>>,
               player_ratings |-> <<>>, playerState |-> <<>>, emitted |-> <<>>]
NoCall == [op |-> "none", args |-> NoArgs, ret |-> 0]
NoWin == [proc |-> 0, op |-> "none", args |-> NoArgs, pre |-> EmptyStore]
NoDone == [op |-> "none", args |-> NoArgs, ret |-> 0, pre |-> EmptyStore, prev |-> NoCall]
NoMpWin == [proc |-> 0, gameMode |-> "", pre |-> EmptyStore]
NoMpDone == [gameMode |-> "", ret |-> 0, pre |-> EmptyStore]

\* Return values: an entry id or a match id (0 for null), 1/0 for true/false,
\* Thrown for a rejected promise.
Thrown == -1

\* kind: "begin" (first step of a call that goes on), "step", "finish" (the
\* call returns ret), "atomic" (a call that returns in its first step).
Track(i, kind, op, args, ret) ==
  LET mine == solo.proc = i
      quiet == solo.proc = 0
  IN /\ solo' = CASE kind = "begin" -> [proc |-> i, op |-> op, args |-> args, pre |-> Store]
                  [] kind = "step" /\ mine -> solo
                  [] OTHER -> NoWin
     /\ done' = CASE kind = "finish" /\ mine ->
                       [op |-> solo.op, args |-> solo.args, ret |-> ret,
                        pre |-> solo.pre, prev |-> last]
                  [] kind = "atomic" ->
                       [op |-> op, args |-> args, ret |-> ret, pre |-> Store,
                        prev |-> IF quiet THEN last ELSE NoCall]
                  [] OTHER -> NoDone
     /\ last' = CASE kind = "begin" -> IF quiet THEN last ELSE NoCall
                  [] kind = "step" -> IF mine THEN last ELSE NoCall
                  [] kind = "finish" ->
                       IF mine THEN [op |-> solo.op, args |-> solo.args, ret |-> ret]
                       ELSE NoCall
                  [] OTHER -> [op |-> op, args |-> args, ret |-> ret]

\* The same for one matchPlayers invocation; kind "other" is a step outside it.
TrackMP(i, kind, m, ret) ==
  LET mine == mpw.proc = i
  IN /\ mpw' = CASE kind = "begin" -> [proc |-> i, gameMode |-> m, pre |-> Store]
                 [] kind = "step" /\ mine -> mpw
                 [] OTHER -> NoMpWin
     /\ mpdone' = CASE kind = "finish" /\ mine ->
                         [gameMode |-> mpw.gameMode, ret |-> ret, pre |-> mpw.pre]
                    [] kind = "atomic" -> [gameMode |-> m, ret |-> ret, pre |-> Store]
                    [] OTHER -> NoMpDone

\* new Date() / Date.now(): the clock is observed only here, and between two
\* observations it has either stood still or advanced.
ReadClock(t) == t \in {now, now + 1} /\ t <= horizon /\ now' = t
SameClock == now' = now

Goto(i, label, l) == pc' = [pc EXCEPT ![i] = label] /\ loc' = [loc EXCEPT ![i] = l]
Return(i) == pc' = [pc EXCEPT ![i] = "idle"] /\ loc' = [loc EXCEPT ![i] = NoLoc]
Started(i) == ncalls' = ncalls + 1

\* ------------------------------------------------------- QueueService.joinQueue
\* select ... where playerId = p and status = 'waiting' limit 1; a hit returns
\* the row (any of them when several match: the query has no ORDER BY).
\* joinQueue without the check for an existing waiting entry.
existingEntryNone(entries, p) == {}

\* A check that sees the waiting entries of one mode only.
existingEntryStandard(entries, p) ==
  {e \in WaitingOf(entries, p) : entries[e].gameMode = "standard"}

\* const existingEntry = await db.select() ... where playerId = p and
\* status = 'waiting' limit 1
existingEntry(entries, p) == WaitingOf(entries, p)

JoinCheck(i, p, m) ==
  LET args == [NoArgs EXCEPT !.playerId = p, !.gameMode = m]
      W == existingEntry(queue_entries, p)
  IN /\ pc[i] = "idle"
     /\ Started(i)
     /\ TrackMP(i, "other", "", 0)
     /\ UNCHANGED <<queue_entries, matches, player_ratings, playerState, emitted>>
     /\ IF W # {}
        THEN /\ \E e \in W : Track(i, "atomic", "joinQueue", args, e)
             /\ UNCHANGED <<pc, loc, now>>
        ELSE /\ Track(i, "begin", "joinQueue", args, 0)
             /\ \E t \in 0..horizon :
                  /\ ReadClock(t)
                  /\ Goto(i, "jq_insert",
                          [NoLoc EXCEPT !.op = "joinQueue", !.args = args, !.ts = t])

\* insert into queue_entries values (playerId, gameMode, joinedAt, 'waiting') returning
JoinInsert(i) ==
  /\ pc[i] = "jq_insert"
  /\ SameClock
  /\ queue_entries' = Append(queue_entries,
        [playerId |-> loc[i].args.playerId, gameMode |-> loc[i].args.gameMode,
         joinedAt |-> loc[i].ts, status |-> "waiting", matchId |-> 0])
  /\ Goto(i, "jq_state", [loc[i] EXCEPT !.entry = Len(queue_entries) + 1])
  /\ Track(i, "step", "", NoArgs, 0)
  /\ TrackMP(i, "other", "", 0)
  /\ UNCHANGED <<matches, player_ratings, playerState, emitted, ncalls>>

\* A joinQueue that returns its entry without trying to pair.
JoinStateNoPairing(i) ==
  /\ pc[i] = "jq_state"
  /\ \E t \in 0..horizon :
       /\ ReadClock(t)
       /\ playerState' = [playerState EXCEPT ![loc[i].args.playerId] = Queuing(t)]
  /\ emitted' = [emitted EXCEPT ![loc[i].args.playerId] = @ + 1]
  /\ Return(i)
  /\ Track(i, "finish", "", NoArgs, loc[i].entry)
  /\ TrackMP(i, "other", "", 0)
  /\ UNCHANGED <<queue_entries, matches, player_ratings, ncalls>>

\* redis.set(PLAYER_STATE_KEY(playerId), {status: 'queuing', queueStartTime}); emit
JoinState(i) ==
  /\ pc[i] = "jq_state"
  /\ \E t \in 0..horizon :
       /\ ReadClock(t)
       /\ playerState' = [playerState EXCEPT ![loc[i].args.playerId] = Queuing(t)]
  /\ emitted' = [emitted EXCEPT ![loc[i].args.playerId] = @ + 1]
  /\ Goto(i, "mp_select", loc[i])
  /\ Track(i, "step", "", NoArgs, 0)
  /\ TrackMP(i, "other", "", 0)
  /\ UNCHANGED <<queue_entries, matches, player_ratings, ncalls>>

\* ---------------------------------------------------- QueueService.matchPlayers
\* The select of the two oldest waiting rows; fewer than two: return null.
\* nested: the invocation is joinQueue's `await this.matchPlayers(gameMode)`.
MatchSelectBody(i, m, nested) ==
  LET S == QueuedPlayers(queue_entries, m)
      args == [NoArgs EXCEPT !.gameMode = m]
      base == IF nested THEN loc[i] ELSE [NoLoc EXCEPT !.op = "matchPlayers", !.args = args]
  IN /\ UNCHANGED <<queue_entries, matches, player_ratings, playerState, emitted>>
     /\ IF S = {}
        THEN /\ Return(i)
             /\ TrackMP(i, "atomic", m, 0)
             /\ IF nested THEN Track(i, "finish", "", NoArgs, loc[i].entry)
                          ELSE Track(i, "atomic", "matchPlayers", args, 0)
        ELSE /\ \E s \in S :
                  Goto(i, "mp_gamenum",
                       [base EXCEPT !.player1 = [id |-> s[1], playerId |-> queue_entries[s[1]].playerId],
                                    !.player2 = [id |-> s[2], playerId |-> queue_entries[s[2]].playerId],
                                    !.gameMode = m, !.ts = now])
             /\ TrackMP(i, "begin", m, 0)
             /\ IF nested THEN Track(i, "step", "", NoArgs, 0)
                          ELSE Track(i, "begin", "matchPlayers", args, 0)

MatchSelect(i) ==
  /\ pc[i] = "mp_select"
  /\ SameClock
  /\ MatchSelectBody(i, loc[i].args.gameMode, TRUE)
  /\ UNCHANGED ncalls

MatchPlayersCall(i, m) ==
  /\ pc[i] = "idle"
  /\ SameClock
  /\ Started(i)
  /\ MatchSelectBody(i, m, FALSE)

\* gameNumber: await this.getNextGameNumber()
MatchGameNumber(i) ==
  /\ pc[i] = "mp_gamenum"
  /\ SameClock
  /\ Goto(i, "mp_insert", [loc[i] EXCEPT !.gameNumber = getNextGameNumber(matches)])
  /\ Track(i, "step", "", NoArgs, 0)
  /\ TrackMP(i, "step", "", 0)
  /\ UNCHANGED <<queue_entries, matches, player_ratings, playerState, emitted, ncalls>>

\* insert into matches values (...) returning
MatchInsert(i) ==
  /\ pc[i] = "mp_insert"
  /\ SameClock
  /\ matches' = Append(matches,
        [gameMode |-> loc[i].gameMode, player1Id |-> loc[i].player1.playerId,
         player2Id |-> loc[i].player2.playerId, startedAt |-> loc[i].ts,
         completedAt |-> -1, winnerId |-> 0, status |-> "in_progress",
         gameNumber |-> loc[i].gameNumber])
  /\ Goto(i, "mp_update", [loc[i] EXCEPT !.match = Len(matches) + 1])
  /\ Track(i, "step", "", NoArgs, 0)
  /\ TrackMP(i, "step", "", 0)
  /\ UNCHANGED <<queue_entries, player_ratings, playerState, emitted, ncalls>>

\* update queue_entries set status = 'matched', matchId = match.id
\*   where id = player1.id or id = player2.id
MatchUpdateEntries(i) ==
  /\ pc[i] = "mp_update"
  /\ SameClock
  /\ queue_entries' =
       [e \in DOMAIN queue_entries |->
          IF e = loc[i].player1.id \/ e = loc[i].player2.id
          THEN [queue_entries[e] EXCEPT !.status = "matched", !.matchId = loc[i].match]
          ELSE queue_entries[e]]
  /\ Goto(i, "mp_state1", [loc[i] EXCEPT !.ts = now])
  /\ Track(i, "step", "", NoArgs, 0)
  /\ TrackMP(i, "step", "", 0)
  /\ UNCHANGED <<matches, player_ratings, playerState, emitted, ncalls>>

\* The same update when the database rejects it (the connection is lost, the
\* statement times out): nothing is written and the rejection leaves
\* matchPlayers, and the joinQueue awaiting it, through their callers. The
\* insert of the Match before it is not undone: there is no transaction.
MatchUpdateRejected(i) ==
  /\ pc[i] = "mp_update"
  /\ SameClock
  /\ Return(i)
  /\ Track(i, "finish", "", NoArgs, Thrown)
  /\ TrackMP(i, "finish", "", Thrown)
  /\ UNCHANGED <<queue_entries, matches, player_ratings, playerState, emitted, ncalls>>

\* redis.set(PLAYER_STATE_KEY(player1.playerId), player1State)
MatchState1(i) ==
  /\ pc[i] = "mp_state1"
  /\ SameClock
  /\ playerState' = [playerState EXCEPT ![loc[i].player1.playerId] =
                        InGame(loc[i].player2.playerId, loc[i].ts)]
  /\ Goto(i, "mp_state2", loc[i])
  /\ Track(i, "step", "", NoArgs, 0)
  /\ TrackMP(i, "step", "", 0)
  /\ UNCHANGED <<queue_entries, matches, player_ratings, emitted, ncalls>>

\* redis.set(PLAYER_STATE_KEY(player2.playerId), player2State); both emits;
\* return match (joinQueue then returns its entry).
MatchState2(i) ==
  LET p1 == loc[i].player1.playerId
      p2 == loc[i].player2.playerId
  IN /\ pc[i] = "mp_state2"
     /\ SameClock
     /\ playerState' = [playerState EXCEPT ![p2] = InGame(p1, loc[i].ts)]
     /\ emitted' = [p \in DOMAIN emitted |->
                      emitted[p] + (IF p = p1 THEN 1 ELSE 0) + (IF p = p2 THEN 1 ELSE 0)]
     /\ Return(i)
     /\ Track(i, "finish", "", NoArgs,
              IF loc[i].op = "joinQueue" THEN loc[i].entry ELSE loc[i].match)
     /\ TrackMP(i, "finish", "", loc[i].match)
     /\ UNCHANGED <<queue_entries, matches, player_ratings, ncalls>>

\* ------------------------------------------------------ QueueService.leaveQueue
\* update queue_entries set status = 'cancelled'
\*   where playerId = p and status = 'waiting' returning; no row: return false
LeaveUpdate(i, p) ==
  LET args == [NoArgs EXCEPT !.playerId = p]
      W == WaitingOf(queue_entries, p)
  IN /\ pc[i] = "idle"
     /\ SameClock
     /\ Started(i)
     /\ TrackMP(i, "other", "", 0)
     /\ UNCHANGED <<matches, player_ratings, playerState, emitted>>
     /\ IF W = {}
        THEN /\ Track(i, "atomic", "leaveQueue", args, 0)
             /\ UNCHANGED <<queue_entries, pc, loc>>
        ELSE /\ queue_entries' =
                  [e \in DOMAIN queue_entries |->
                     IF e \in W THEN [queue_entries[e] EXCEPT !.status = "cancelled"]
                     ELSE queue_entries[e]]
             /\ Track(i, "begin", "leaveQueue", args, 0)
             /\ Goto(i, "lq_state", [NoLoc EXCEPT !.op = "leaveQueue", !.args = args])

\* redis.set(PLAYER_STATE_KEY(playerId), {status: 'idle'}); emit; return true
LeaveState(i) ==
  /\ pc[i] = "lq_state"
  /\ SameClock
  /\ playerState' = [playerState EXCEPT ![loc[i].args.playerId] = Idle]
  /\ emitted' = [emitted EXCEPT ![loc[i].args.playerId] = @ + 1]
  /\ Return(i)
  /\ Track(i, "finish", "", NoArgs, 1)
  /\ TrackMP(i, "other", "", 0)
  /\ UNCHANGED <<queue_entries, matches, player_ratings, ncalls>>

\* --------------------------------------------------- QueueService.completeMatch
\* update matches set completedAt, winnerId, status = 'completed'
\*   where id = matchId returning; no row: throw `Match not found`
\* A completeMatch that lets a missing match through.
ReturnIfMissing(match) == match

\* if (!match) { throw new Error(`Match ${matchId} not found`) }; match is the
\* id of the updated row, 0 when the update returned no row.
ThrowIfMissing(match) == IF match = 0 THEN Thrown ELSE match

CompleteUpdate(i, k, w) ==
  LET args == [NoArgs EXCEPT !.matchId = k, !.winnerId = w]
  IN /\ pc[i] = "idle"
     /\ Started(i)
     /\ TrackMP(i, "other", "", 0)
     /\ UNCHANGED <<queue_entries, player_ratings, playerState, emitted>>
     /\ IF k \notin DOMAIN matches
        THEN /\ Track(i, "atomic", "completeMatch", args, ThrowIfMissing(0))
             /\ UNCHANGED <<matches, pc, loc, now>>
        ELSE /\ \E t \in 0..horizon :
                  /\ ReadClock(t)
                  /\ matches' = [matches EXCEPT ![k] =
                       [@ EXCEPT !.completedAt = t, !.winnerId = w, !.status = "completed"]]
             /\ Track(i, "begin", "completeMatch", args, 0)
             /\ Goto(i, "cm_state1",
                     [NoLoc EXCEPT !.op = "completeMatch", !.args = args,
                                   !.player1Id = matches[k].player1Id,
                                   !.player2Id = matches[k].player2Id,
                                   !.gameMode = matches[k].gameMode])

\* redis.set(PLAYER_STATE_KEY(match.player1Id), {status: 'idle'})
CompleteState1(i) ==
  /\ pc[i] = "cm_state1"
  /\ SameClock
  /\ playerState' = [playerState EXCEPT ![loc[i].player1Id] = Idle]
  /\ Goto(i, "cm_state2", loc[i])
  /\ Track(i, "step", "", NoArgs, 0)
  /\ TrackMP(i, "other", "", 0)
  /\ UNCHANGED <<queue_entries, matches, player_ratings, emitted, ncalls>>

\* redis.set(PLAYER_STATE_KEY(match.player2Id), {status: 'idle'}); both emits;
\* result = 1 if winnerId is player1, 0 if it is player2, 0.5 otherwise
CompleteState2(i) ==
  LET p1 == loc[i].player1Id
      p2 == loc[i].player2Id
      w == loc[i].args.winnerId
  IN /\ pc[i] = "cm_state2"
     /\ SameClock
     /\ playerState' = [playerState EXCEPT ![p2] = Idle]
     /\ emitted' = [p \in DOMAIN emitted |->
                      emitted[p] + (IF p = p1 THEN 1 ELSE 0) + (IF p = p2 THEN 1 ELSE 0)]
     /\ Goto(i, "ur_get1",
             [loc[i] EXCEPT !.result2 = IF w = p1 THEN 2 ELSE IF w = p2 THEN 0 ELSE 1])
     /\ Track(i, "step", "", NoArgs, 0)
     /\ TrackMP(i, "other", "", 0)
     /\ UNCHANGED <<queue_entries, matches, player_ratings, ncalls>>

\* --------------------------------------------------- QueueService.updateRatings
\* getOrCreatePlayerRating(playerId, gameMode): the select
RatingGet(i, label, key, found, absent) ==
  /\ pc[i] = label
  /\ SameClock
  /\ IF player_ratings[key].exists
     THEN Goto(i, found, IF label = "ur_get1"
                         THEN [loc[i] EXCEPT !.player1Rating = player_ratings[key]]
                         ELSE [loc[i] EXCEPT !.player2Rating = player_ratings[key]])
     ELSE Goto(i, absent, loc[i])
  /\ Track(i, "step", "", NoArgs, 0)
  /\ TrackMP(i, "other", "", 0)
  /\ UNCHANGED <<queue_entries, matches, player_ratings, playerState, emitted, ncalls>>

\* getOrCreatePlayerRating: db.insert(player_ratings).values(newRating); the
\* primary key (playerId, gameMode) rejects a second row, and the rejection
\* propagates out of completeMatch.
RatingInsert(i, label, key, next) ==
  /\ pc[i] = label
  /\ SameClock
  /\ TrackMP(i, "other", "", 0)
  /\ UNCHANGED <<queue_entries, matches, playerState, emitted, ncalls>>
  /\ IF player_ratings[key].exists
     THEN /\ Return(i)
          /\ Track(i, "finish", "", NoArgs, Thrown)
          /\ UNCHANGED player_ratings
     ELSE /\ player_ratings' = [player_ratings EXCEPT ![key] = newRating]
          /\ Goto(i, next, IF label = "ur_ins1"
                           THEN [loc[i] EXCEPT !.player1Rating = newRating]
                           ELSE [loc[i] EXCEPT !.player2Rating = newRating])
          /\ Track(i, "step", "", NoArgs, 0)

RatingGet1(i) ==
  RatingGet(i, "ur_get1", <<loc[i].player1Id, loc[i].gameMode>>, "ur_get2", "ur_ins1")
RatingInsert1(i) ==
  RatingInsert(i, "ur_ins1", <<loc[i].player1Id, loc[i].gameMode>>, "ur_get2")
RatingGet2(i) ==
  RatingGet(i, "ur_get2", <<loc[i].player2Id, loc[i].gameMode>>, "ur_upd1", "ur_ins2")
RatingInsert2(i) ==
  RatingInsert(i, "ur_ins2", <<loc[i].player2Id, loc[i].gameMode>>, "ur_upd1")

\* The K-factor taken from the opponent's number of games.
UpdatedRatingOpponentK(own, opp, actual2) ==
  LET expected == calculateExpectedScore(own.rating, opp.rating)
      new == calculateNewRating(own.rating, expected, actual2, opp.gamesPlayed)
  IN [exists |-> TRUE,
      rating |-> new,
      gamesPlayed |-> own.gamesPlayed + 1,
      wins |-> IF actual2 = 2 THEN own.wins + 1 ELSE own.wins,
      losses |-> IF actual2 = 0 THEN own.losses + 1 ELSE own.losses,
      draws |-> IF actual2 = 1 THEN own.draws + 1 ELSE own.draws,
      peakRating |-> Max(own.peakRating, new)]

\* The row updateRatings writes for one player: own is the row read before,
\* opp the opponent's, actual2 the doubled score of this player.
UpdatedRating(own, opp, actual2) ==
  LET expected == calculateExpectedScore(own.rating, opp.rating)
      new == calculateNewRating(own.rating, expected, actual2, own.gamesPlayed)
  IN [exists |-> TRUE,
      rating |-> new,
      gamesPlayed |-> own.gamesPlayed + 1,
      wins |-> IF actual2 = 2 THEN own.wins + 1 ELSE own.wins,
      losses |-> IF actual2 = 0 THEN own.losses + 1 ELSE own.losses,
      draws |-> IF actual2 = 1 THEN own.draws + 1 ELSE own.draws,
      peakRating |-> Max(own.peakRating, new)]

\* update player_ratings set ... where playerId = player1Id and gameMode
RatingUpdate1(i) ==
  /\ pc[i] = "ur_upd1"
  /\ SameClock
  /\ player_ratings' = [player_ratings EXCEPT ![<<loc[i].player1Id, loc[i].gameMode>>] =
        UpdatedRating(loc[i].player1Rating, loc[i].player2Rating, loc[i].result2)]
  /\ Goto(i, "ur_upd2", loc[i])
  /\ Track(i, "step", "", NoArgs, 0)
  /\ TrackMP(i, "other", "", 0)
  /\ UNCHANGED <<queue_entries, matches, playerState, emitted, ncalls>>

\* update player_ratings set ... where playerId = player2Id and gameMode;
\* completeMatch returns the match
RatingUpdate2(i) ==
  /\ pc[i] = "ur_upd2"
  /\ SameClock
  /\ player_ratings' = [player_ratings EXCEPT ![<<loc[i].player2Id, loc[i].gameMode>>] =
        UpdatedRating(loc[i].player2Rating, loc[i].player1Rating, 2 - loc[i].result2)]
  /\ Return(i)
  /\ Track(i, "finish", "", NoArgs, loc[i].args.matchId)
  /\ TrackMP(i, "other", "", 0)
  /\ UNCHANGED <<queue_entries, matches, playerState, emitted, ncalls>>

\* ratingsRouter.updateRatings: input result is z.number(), so every number is
\* accepted; the mutation hands it to the rating service's updateRatings, whose
\* steps are the ones above. result2 is the doubled result.
UpdateRatingsCall(i, p1, p2, m, result2) ==
  LET args == [NoArgs EXCEPT !.playerId = p1, !.gameMode = m]
  IN /\ pc[i] = "idle"
     /\ Started(i)
     /\ SameClock
     /\ Goto(i, "ur_get1",
             [NoLoc EXCEPT !.op = "updateRatings", !.args = args,
                           !.player1Id = p1, !.player2Id = p2, !.gameMode = m,
                           !.result2 = result2])
     /\ Track(i, "begin", "updateRatings", args, 0)
     /\ TrackMP(i, "other", "", 0)
     /\ UNCHANGED <<queue_entries, matches, player_ratings, playerState, emitted>>

\* A rating query that creates the default row of a player who has none.
GetPlayerRatingCreates(i, p, m) ==
  LET args == [NoArgs EXCEPT !.playerId = p, !.gameMode = m]
  IN /\ pc[i] = "idle"
     /\ Started(i)
     /\ SameClock
     /\ Track(i, "atomic", "getPlayerRating", args, 1)
     /\ TrackMP(i, "other", "", 0)
     /\ player_ratings' = [player_ratings EXCEPT
                             ![<<p, m>>] = IF @.exists THEN @ ELSE newRating]
     /\ UNCHANGED <<queue_entries, matches, playerState, emitted, pc, loc>>

\* ratingsRouter.getPlayerRating: select ... where playerId and gameMode limit 1;
\* the row or null. A query: it writes nothing.
GetPlayerRating(i, p, m) ==
  LET args == [NoArgs EXCEPT !.playerId = p, !.gameMode = m]
  IN /\ pc[i] = "idle"
     /\ Started(i)
     /\ SameClock
     /\ Track(i, "atomic", "getPlayerRating", args,
              IF player_ratings[<<p, m>>].exists THEN 1 ELSE 0)
     /\ TrackMP(i, "other", "", 0)
     /\ UNCHANGED <<queue_entries, matches, player_ratings, playerState, emitted, pc, loc>>

\* --------------------------------------------------------- Leaderboard Cache
\* Two queue ids, one a prefix of the other.
Queues == {"q1", "q12"}
UserIds == {"u1", "u2"}

\* LeaderboardEntry: the fields the service reads (id, mmr, rank).
Entry(id, mmr, rank) == [id |-> id, mmr |-> mmr, rank |-> rank]

\* The lists neatqueue_service.get_leaderboard may resolve with.
Boards == { <<>>,
            <<Entry("u1", 300, 1), Entry("u2", 200, 2)>>,
            <<Entry("u2", 100, 1), Entry("u1", 250, 2)>> }

\* Strings the service builds keys from, as sequences of characters; Alphabet
\* lists the characters in code-point order.
Alphabet == <<"0", "1", "2", "3", "4", "5", "6", "7", "8", "9", "_",
              "a", "b", "d", "e", "h", "l", "n", "o", "p", "q", "r", "s", "t">>
CharCode(c) == CHOOSE i \in DOMAIN Alphabet : Alphabet[i] = c

QueueIdChars(q) == IF q = "q1" THEN <<"q", "1">> ELSE <<"q", "1", "2">>

\* new Date(t).toISOString(): a fixed-width rendering of the instant, so that
\* string order is time order; .replace(/[:.]/g, '_') keeps the width.
toISOString(t) ==
  [i \in 1..TsWidth |-> Alphabet[((t \div Pow10(TsWidth - i)) % 10) + 1]]

\* `snapshot_leaderboard_${queue_id}_`
getSnapshotPrefix(q) ==
  <<"s", "n", "a", "p", "s", "h", "o", "t", "_",
    "l", "e", "a", "d", "e", "r", "b", "o", "a", "r", "d", "_">>
  \o QueueIdChars(q) \o <<"_">>

\* `snapshot_leaderboard_${queue_id}_${timestamp}`
getSnapshotKey(q, timestamp) == getSnapshotPrefix(q) \o timestamp

\* SQL: str LIKE prefix || '%'. An underscore in the pattern stands for any
\* one character.
Like(str, prefix) ==
  /\ Len(str) >= Len(prefix)
  /\ \A i \in DOMAIN prefix : prefix[i] = "_" \/ prefix[i] = str[i]

\* Order of two strings by code point.
StringLess(a, b) ==
  LET n == IF Len(a) <= Len(b) THEN Len(a) ELSE Len(b)
      diff == {i \in 1..n : a[i] # b[i]}
  IN IF diff = {} THEN Len(a) < Len(b)
     ELSE LET i == CHOOSE k \in diff : \A j \in diff : k <= j
          IN CharCode(a[i]) < CharCode(b[i])

\* The orders in which a query with ORDER BY may return the rows of set rows:
\* every arrangement in which no row comes before one that the set of pairs
\* ahead puts in front of it; rows that tie come in any order.
Ordered(rows, ahead) ==
  {sq \in [1..Cardinality(rows) -> rows] :
     /\ \A i, j \in DOMAIN sq : i # j => sq[i] # sq[j]
     /\ \A i, j \in DOMAIN sq : i < j => <<sq[j], sq[i]>> \notin ahead}

\* .limit(n)
Limit(sq, n) == SubSeq(sq, 1, IF n <= Len(sq) THEN n ELSE Len(sq))

\* JSON.stringify / JSON.parse of plain data: a string that is not the value,
\* and that parses back to it.
JSONstringify(v) == [json |-> v]
JSONparse(s) == s.json

NoKey == [present |-> FALSE, value |-> JSONstringify(<<>>), expires |-> FALSE, expiresAt |-> 0]
NoRow == [present |-> FALSE, value |-> JSONstringify(<<>>)]

\* A cache in which no key is ever found.
LiveNever(k) == FALSE

\* A redis key answers until its expiry has passed (times in milliseconds).
Live(k) == k.present /\ (k.expires => now < k.expiresAt)

LBStore == [cache |-> lbCache, zset |-> lbZSet, user |-> lbUser,
            snapshots |-> lbSnapshots, meta |-> lbMeta, backup |-> lbBackup]
EmptyLBStore == [cache |-> <<>>, zset |-> <<>>, user |-> <<>>,
                 snapshots |-> <<>>, meta |-> {}, backup |-> <<>>]

\* source names where the data a call returns was read from: "cache", "fetch",
\* "backup", or "none" when it returns no stored data.
NoLbLoc == [op |-> "none", queue_id |-> "", user_id |-> "", limit |-> 0,
            source |-> "none",
            nested |-> FALSE, fresh |-> <<>>,
            timestamp |-> 0, pre |-> EmptyLBStore, cacheMiss |-> FALSE,
            cacheFailed |-> FALSE, upstreamFailed |-> FALSE, fetched |-> FALSE,
            writeFailed |-> FALSE, lookupsFailed |-> 0]
NoLbRes == [outcome |-> "none", data |-> <<>>, isStale |-> FALSE, call |-> NoLbLoc]

LbGoto(label, l) == lbPc' = label /\ lbLoc' = l
LbReturn(l, response) ==
  /\ lbPc' = "idle"
  /\ lbLoc' = NoLbLoc
  /\ lbRes' = [outcome |-> "returned", data |-> response.data,
               isStale |-> response.isStale, call |-> l]
LbThrow(l) ==
  /\ lbPc' = "idle"
  /\ lbLoc' = NoLbLoc
  /\ lbRes' = [outcome |-> "thrown", data |-> <<>>, isStale |-> FALSE, call |-> l]

\* getUserRank's return null
LbNull(l) ==
  /\ lbPc' = "idle"
  /\ lbLoc' = NoLbLoc
  /\ lbRes' = [outcome |-> "null", data |-> <<>>, isStale |-> FALSE, call |-> l]

LbStoreUnchanged == UNCHANGED <<lbCache, lbZSet, lbUser, lbSnapshots, lbMeta, lbBackup>>

\* A fallback that forgets the backup row.
BackupResponseEmpty(backup) == [data |-> <<>>, isStale |-> TRUE]

\* if (backup) return { data: JSON.parse(backup.value).data, isStale: true }
\* return { data: [], isStale: true }
BackupResponse(backup) ==
  IF backup.present
  THEN [data |-> JSONparse(backup.value).data, isStale |-> TRUE]
  ELSE [data |-> <<>>, isStale |-> TRUE]

\* The row of the backup a fallback reads from, as the source of its data.
BackupSource(backup) == IF backup.present THEN "backup" ELSE "none"

\* data.find(entry => entry.id === user_id): the first entry of the user, as a
\* list of one entry, or the empty list for undefined.
FindEntry(data, user_id) ==
  LET hits == {n \in DOMAIN data : data[n].id = user_id}
  IN IF hits = {} THEN <<>>
     ELSE <<data[CHOOSE n \in hits : \A k \in hits : n <= k]>>

\* refreshLeaderboard returns response to its caller. getUserRank keeps only
\* the data (const { data: freshLeaderboard } = await this.refreshLeaderboard)
\* and returns { data: userEntry, isStale: false } when it finds the user in
\* it; otherwise it goes on to its own backup lookup.
RefreshReturn(l, response) ==
  IF l.op = "getUserRank"
  THEN IF FindEntry(response.data, l.user_id) # <<>>
       THEN LbReturn(l, [data |-> FindEntry(response.data, l.user_id), isStale |-> FALSE])
       ELSE LbGoto("gur_backup", l) /\ UNCHANGED lbRes
  ELSE LbReturn(l, response)

\* refreshLeaderboard rejects: getLeaderboard's catch block runs its lookup,
\* getUserRank's inner catch logs and goes on to the backup lookup, a direct
\* caller receives the rejection.
RefreshThrow(l) ==
  IF l.op = "getUserRank" THEN LbGoto("gur_backup", l) /\ UNCHANGED lbRes
  ELSE IF l.nested THEN LbGoto("gl_backup", l) /\ UNCHANGED lbRes
  ELSE LbThrow(l)

\* getLeaderboard: const cached = await redis.get(rawKey); a rejection goes to
\* the catch block; if (cached) return { data: JSON.parse(cached), isStale: false };
\* otherwise refreshLeaderboard is entered and its fetch is awaited.
GetLeaderboard(q) ==
  LET l == [NoLbLoc EXCEPT !.op = "getLeaderboard", !.queue_id = q, !.pre = LBStore]
  IN /\ lbPc = "idle"
     /\ lbCalls' = lbCalls + 1
     /\ LbStoreUnchanged
     /\ \E ok \in BOOLEAN :
          IF ~ok
          THEN /\ LbGoto("gl_backup", [l EXCEPT !.cacheFailed = TRUE])
               /\ lbRes' = NoLbRes
          ELSE IF Live(lbCache[q])
          THEN LbReturn([l EXCEPT !.source = "cache"],
                        [data |-> JSONparse(lbCache[q].value), isStale |-> FALSE])
          ELSE /\ LbGoto("rl_fetch", [l EXCEPT !.cacheMiss = TRUE, !.nested = TRUE])
               /\ lbRes' = NoLbRes

\* refreshLeaderboard called on its own: the fetch is awaited.
RefreshLeaderboard(q) ==
  /\ lbPc = "idle"
  /\ lbCalls' = lbCalls + 1
  /\ LbStoreUnchanged
  /\ LbGoto("rl_fetch", [NoLbLoc EXCEPT !.op = "refreshLeaderboard", !.queue_id = q,
                                        !.pre = LBStore])
  /\ lbRes' = NoLbRes

\* const fresh = await neatqueue_service.get_leaderboard(queue_id);
\* const timestamp = new Date().toISOString()
RefreshFetch ==
  /\ lbPc = "rl_fetch"
  /\ LbStoreUnchanged
  /\ UNCHANGED <<lbCalls, lbRes>>
  /\ \/ LbGoto("rl_backup", [lbLoc EXCEPT !.upstreamFailed = TRUE])
     \/ \E fresh \in Boards :
          LbGoto("rl_pipeline", [lbLoc EXCEPT !.fresh = fresh, !.timestamp = now,
                                              !.fetched = TRUE])

\* pipeline.setex(rawKey, 180, JSON.stringify(fresh)); pipeline.del(zsetKey);
\* per entry zadd(zsetKey, mmr, id) and hset(userKey, {...entry, queue_id});
\* pipeline.expire(zsetKey, 180); await pipeline.exec(). The commands are not
\* a transaction: an exec that rejects may have written the raw key already.
RefreshPipeline ==
  LET q == lbLoc.queue_id
      fresh == lbLoc.fresh
      ids == {fresh[n].id : n \in DOMAIN fresh}
      row(u) == CHOOSE n \in DOMAIN fresh :
                  fresh[n].id = u /\ \A k \in DOMAIN fresh : fresh[k].id = u => k <= n
      raw == [present |-> TRUE, value |-> JSONstringify(fresh), expires |-> TRUE,
              expiresAt |-> now + CACHE_TTL * MsPerSecond]
  IN /\ lbPc = "rl_pipeline"
     /\ UNCHANGED <<lbSnapshots, lbMeta, lbBackup, lbCalls, lbRes>>
     /\ \/ /\ LbGoto("rl_backup", [lbLoc EXCEPT !.writeFailed = TRUE])
           /\ \E sent \in BOOLEAN :
                lbCache' = IF sent THEN [lbCache EXCEPT ![q] = raw] ELSE lbCache
           /\ UNCHANGED <<lbZSet, lbUser>>
        \/ /\ lbCache' = [lbCache EXCEPT ![q] = raw]
           /\ lbZSet' = [lbZSet EXCEPT ![q] =
                [present |-> ids # {},
                 value |-> {<<fresh[row(u)].mmr, u>> : u \in ids},
                 expires |-> ids # {},
                 expiresAt |-> IF ids # {} THEN now + CACHE_TTL * MsPerSecond ELSE 0]]
           /\ lbUser' = [k \in DOMAIN lbUser |->
                IF k[2] = q /\ k[1] \in ids
                THEN [present |-> TRUE,
                      value |-> [entry |-> fresh[row(k[1])], queue_id |-> q],
                      expires |-> lbUser[k].expires /\ Live(lbUser[k]),
                      expiresAt |-> lbUser[k].expiresAt]
                ELSE lbUser[k]]
           /\ LbGoto("rl_snapshot", lbLoc)

\* await db.insert(leaderboardSnapshots).values({channelId, timestamp, data: fresh})
RefreshSnapshot ==
  /\ lbPc = "rl_snapshot"
  /\ UNCHANGED <<lbCache, lbZSet, lbUser, lbMeta, lbBackup, lbCalls, lbRes>>
  /\ \/ /\ LbGoto("rl_backup", [lbLoc EXCEPT !.writeFailed = TRUE])
        /\ UNCHANGED lbSnapshots
     \/ /\ lbSnapshots' = Append(lbSnapshots,
             [channelId |-> lbLoc.queue_id, timestamp |-> lbLoc.timestamp,
              data |-> lbLoc.fresh])
        /\ LbGoto("rl_meta", lbLoc)

\* await db.insert(metadata).values({key: snapshotKey, value: JSON.stringify(
\* {data: fresh, timestamp, queue_id})}): metadata.key is the primary key, so a
\* second snapshot of the queue with the same timestamp is rejected.
RefreshMetaSnapshot ==
  LET snapshotKey == <<lbLoc.queue_id, lbLoc.timestamp>>
  IN /\ lbPc = "rl_meta"
     /\ UNCHANGED <<lbCache, lbZSet, lbUser, lbSnapshots, lbBackup, lbCalls, lbRes>>
     /\ \/ /\ LbGoto("rl_backup", [lbLoc EXCEPT !.writeFailed = TRUE])
           /\ UNCHANGED lbMeta
        \/ /\ \A r \in lbMeta : r.key # snapshotKey
           /\ lbMeta' = lbMeta \cup
                {[key |-> snapshotKey,
                  value |-> JSONstringify([data |-> lbLoc.fresh,
                                           timestamp |-> toISOString(lbLoc.timestamp),
                                           queue_id |-> lbLoc.queue_id])]}
           /\ LbGoto("rl_upsert", lbLoc)

\* A backup row that drops the list.
BackupRowEmpty(fresh, timestamp) ==
  [present |-> TRUE, value |-> JSONstringify([data |-> <<>>, timestamp |-> timestamp])]

\* { key: backupKey, value: JSON.stringify({ data: fresh, timestamp }) }
BackupRow(fresh, timestamp) ==
  [present |-> TRUE, value |-> JSONstringify([data |-> fresh, timestamp |-> timestamp])]

\* await db.insert(metadata).values({key: backupKey, value: JSON.stringify(
\* {data: fresh, timestamp})}).onConflictDoUpdate(...);
\* return { data: fresh, isStale: false }
RefreshBackup ==
  /\ lbPc = "rl_upsert"
  /\ UNCHANGED <<lbCache, lbZSet, lbUser, lbSnapshots, lbMeta, lbCalls>>
  /\ \/ /\ LbGoto("rl_backup", [lbLoc EXCEPT !.writeFailed = TRUE])
        /\ UNCHANGED <<lbBackup, lbRes>>
     \/ /\ lbBackup' = [lbBackup EXCEPT ![lbLoc.queue_id] =
             BackupRow(lbLoc.fresh, toISOString(lbLoc.timestamp))]
        /\ RefreshReturn([lbLoc EXCEPT !.source = "fetch"],
                         [data |-> lbLoc.fresh, isStale |-> FALSE])

\* A catch block of refreshLeaderboard that drops the queue's cached list.
RefreshFallbackInvalidates ==
  /\ lbPc = "rl_backup"
  /\ lbCache' = [lbCache EXCEPT ![lbLoc.queue_id] = NoKey]
  /\ UNCHANGED <<lbZSet, lbUser, lbSnapshots, lbMeta, lbBackup, lbCalls>>
  /\ \/ RefreshReturn([lbLoc EXCEPT !.source = BackupSource(lbBackup[lbLoc.queue_id])],
                       BackupResponse(lbBackup[lbLoc.queue_id]))
     \/ RefreshThrow([lbLoc EXCEPT !.lookupsFailed = @ + 1])

\* refreshLeaderboard's catch block: the select of the backup row; a rejection
\* of the select leaves refreshLeaderboard as a rejection, which getLeaderboard
\* catches and refreshLeaderboard's own caller receives.
RefreshFallback ==
  /\ lbPc = "rl_backup"
  /\ LbStoreUnchanged
  /\ UNCHANGED lbCalls
  /\ \/ RefreshReturn([lbLoc EXCEPT !.source = BackupSource(lbBackup[lbLoc.queue_id])],
                       BackupResponse(lbBackup[lbLoc.queue_id]))
     \/ RefreshThrow([lbLoc EXCEPT !.lookupsFailed = @ + 1])

\* A catch block of getLeaderboard that puts the backup's list into the cache.
GetFallbackCaches ==
  LET q == lbLoc.queue_id
      backup == lbBackup[q]
  IN /\ lbPc = "gl_backup"
     /\ lbCache' = IF backup.present
                   THEN [lbCache EXCEPT ![q] =
                           [present |-> TRUE,
                            value |-> JSONstringify(JSONparse(backup.value).data),
                            expires |-> TRUE,
                            expiresAt |-> now + CACHE_TTL * MsPerSecond]]
                   ELSE lbCache
     /\ UNCHANGED <<lbZSet, lbUser, lbSnapshots, lbMeta, lbBackup, lbCalls>>
     /\ \/ LbReturn([lbLoc EXCEPT !.source = BackupSource(backup)], BackupResponse(backup))
        \/ LbThrow([lbLoc EXCEPT !.lookupsFailed = @ + 1])

\* getLeaderboard's catch block: the same select, outside any try.
GetFallback ==
  /\ lbPc = "gl_backup"
  /\ LbStoreUnchanged
  /\ UNCHANGED lbCalls
  /\ \/ LbReturn([lbLoc EXCEPT !.source = BackupSource(lbBackup[lbLoc.queue_id])],
                  BackupResponse(lbBackup[lbLoc.queue_id]))
     \/ LbThrow([lbLoc EXCEPT !.lookupsFailed = @ + 1])

\* getUserRank: const userData = await redis.hgetall(userKey); a rejection is
\* caught by the outer catch, which returns null; if (userData) return
\* { data: {...userData, mmr: Number(userData.mmr)}, isStale: false };
\* otherwise refreshLeaderboard is entered and its fetch is awaited.
GetUserRank(q, u) ==
  LET l == [NoLbLoc EXCEPT !.op = "getUserRank", !.queue_id = q, !.user_id = u,
                           !.pre = LBStore]
  IN /\ lbPc = "idle"
     /\ lbCalls' = lbCalls + 1
     /\ LbStoreUnchanged
     /\ \E ok \in BOOLEAN :
          IF ~ok
          THEN LbNull([l EXCEPT !.cacheFailed = TRUE])
          ELSE IF Live(lbUser[<<u, q>>])
          THEN LbReturn([l EXCEPT !.source = "cache"],
                        [data |-> <<lbUser[<<u, q>>].value.entry>>, isStale |-> FALSE])
          ELSE /\ LbGoto("rl_fetch", [l EXCEPT !.cacheMiss = TRUE])
               /\ lbRes' = NoLbRes

\* getUserRank's backup lookup: a rejection of the select is caught by the
\* outer catch (return null); if the backup row exists and holds an entry of
\* the user, return { data: userEntry, isStale: true }; otherwise return null.
UserRankFallback ==
  LET backup == lbBackup[lbLoc.queue_id]
      found == IF backup.present
               THEN FindEntry(JSONparse(backup.value).data, lbLoc.user_id) ELSE <<>>
  IN /\ lbPc = "gur_backup"
     /\ LbStoreUnchanged
     /\ UNCHANGED lbCalls
     /\ \/ LbNull([lbLoc EXCEPT !.lookupsFailed = @ + 1])
        \/ IF found # <<>>
           THEN LbReturn([lbLoc EXCEPT !.source = "backup"],
                         [data |-> found, isStale |-> TRUE])
           ELSE LbNull([lbLoc EXCEPT !.source = "none"])

\* getLeaderboardSnapshots: select from leaderboardSnapshots where channelId =
\* queue_id order by timestamp desc limit limit, mapped to {data, timestamp:
\* snapshot.timestamp.toISOString(), queue_id: snapshot.channelId}; a rejection
\* goes on to the metadata query of the catch block.
GetLeaderboardSnapshots(q, limit) ==
  LET l == [NoLbLoc EXCEPT !.op = "getLeaderboardSnapshots", !.queue_id = q,
                           !.limit = limit, !.pre = LBStore]
      rows == {n \in DOMAIN lbSnapshots : lbSnapshots[n].channelId = q}
      newer == {pr \in rows \X rows :
                  lbSnapshots[pr[1]].timestamp > lbSnapshots[pr[2]].timestamp}
      response(n) == [data |-> lbSnapshots[n].data,
                      timestamp |-> toISOString(lbSnapshots[n].timestamp),
                      queue_id |-> lbSnapshots[n].channelId]
  IN /\ lbPc = "idle"
     /\ lbCalls' = lbCalls + 1
     /\ LbStoreUnchanged
     /\ \/ /\ LbGoto("gs_metadata", [l EXCEPT !.lookupsFailed = 1])
           /\ lbRes' = NoLbRes
        \/ \E sq \in Ordered(rows, newer) :
             LbReturn(l, [data |-> [i \in DOMAIN Limit(sq, limit) |-> response(sq[i])],
                          isStale |-> FALSE])

\* The catch block: select from metadata where key LIKE prefix || '%' order by
\* key desc limit limit, each value parsed to {data, timestamp, queue_id}; a
\* rejection of this query returns [].
SnapshotsFromMetadata ==
  LET prefix == getSnapshotPrefix(lbLoc.queue_id)
      keyOf(r) == getSnapshotKey(r.key[1], toISOString(r.key[2]))
      rows == {r \in lbMeta : Like(keyOf(r), prefix)}
      greater == {pr \in rows \X rows : StringLess(keyOf(pr[2]), keyOf(pr[1]))}
      response(r) == [data |-> JSONparse(r.value).data,
                      timestamp |-> JSONparse(r.value).timestamp,
                      queue_id |-> JSONparse(r.value).queue_id]
  IN /\ lbPc = "gs_metadata"
     /\ LbStoreUnchanged
     /\ UNCHANGED lbCalls
     /\ \/ LbReturn([lbLoc EXCEPT !.lookupsFailed = 2], [data |-> <<>>, isStale |-> FALSE])
        \/ \E sq \in Ordered(rows, greater) :
             LbReturn(lbLoc, [data |-> [i \in DOMAIN Limit(sq, lbLoc.limit) |-> response(sq[i])],
                              isStale |-> FALSE])

\* ------------------------------------------------------------ season reads
\* season.file is data.alltime of src/data/leaderboard-snapshot-eos2.json;
\* cache2 and cache3 are season2DataCache and season3DataCache.
NoCached == [has |-> FALSE, entries |-> <<>>]
NoSeason == [file |-> <<>>, cache2 |-> [q \in Queues |-> NoCached],
             cache3 |-> [q \in Queues |-> NoCached]]

\* The season 3 window [SEASON_3_START_DATE, SEASON_4_START_DATE) on the
\* model's clock.
SEASON_3_START_DATE == 1
SEASON_4_START_DATE == CACHE_TTL * MsPerSecond + 1

\* [...entries].sort((a, b) => b.mmr - a.mmr).map((entry, idx) => ({...entry,
\* rank: idx + 1})): a stable sort by mmr descending, ranks renumbered.
sortedEntries(entries) ==
  LET pos(i) == 1 + Cardinality({j \in DOMAIN entries :
                     \/ entries[j].mmr > entries[i].mmr
                     \/ entries[j].mmr = entries[i].mmr /\ j < i})
  IN [k \in DOMAIN entries |->
        LET i == CHOOSE n \in DOMAIN entries : pos(n) = k
        IN [entries[i] EXCEPT !.rank = k]]

\* The leaderboard reads return the sorted list; the user-rank reads return
\* sortedLeaderboard.find(entry => entry.id === user_id) || null.
SeasonReturn(l, entries) ==
  LET sorted == sortedEntries(entries)
  IN IF l.user_id = "" THEN LbReturn(l, [data |-> sorted, isStale |-> FALSE])
     ELSE IF FindEntry(sorted, l.user_id) = <<>> THEN LbNull(l)
     ELSE LbReturn(l, [data |-> FindEntry(sorted, l.user_id), isStale |-> FALSE])

\* A variant that also puts the list under the queue's raw cache key.
season3DataCacheSetRedis(queue_id, entries) ==
  /\ season' = [season EXCEPT !.cache3[queue_id] = [has |-> TRUE, entries |-> entries]]
  /\ lbCache' = [lbCache EXCEPT ![queue_id] =
                   [present |-> TRUE, value |-> JSONstringify(entries),
                    expires |-> FALSE, expiresAt |-> 0]]
  /\ UNCHANGED <<lbZSet, lbUser, lbSnapshots, lbMeta, lbBackup>>

\* this.season3DataCache.set(queue_id, entries)
season3DataCacheSet(queue_id, entries) ==
  /\ season' = [season EXCEPT !.cache3[queue_id] = [has |-> TRUE, entries |-> entries]]
  /\ LbStoreUnchanged

\* loadSeason2Data: the cached list, or the file's entries (then cached), or
\* [] when reading or parsing the file throws. The file is the same for every
\* queue_id.
Season2Read(l) ==
  /\ lbPc = "idle"
  /\ lbCalls' = lbCalls + 1
  /\ LbStoreUnchanged
  /\ IF season.cache2[l.queue_id].has
     THEN /\ UNCHANGED season
          /\ SeasonReturn(l, season.cache2[l.queue_id].entries)
     ELSE \/ /\ UNCHANGED season
             /\ SeasonReturn(l, <<>>)
          \/ /\ season' = [season EXCEPT !.cache2[l.queue_id] =
                              [has |-> TRUE, entries |-> season.file]]
             /\ SeasonReturn(l, season.file)

GetSeason2Leaderboard(q) ==
  Season2Read([NoLbLoc EXCEPT !.op = "getSeason2Leaderboard", !.queue_id = q,
                              !.pre = LBStore])

GetSeason2UserRank(q, u) ==
  Season2Read([NoLbLoc EXCEPT !.op = "getSeason2UserRank", !.queue_id = q,
                              !.user_id = u, !.pre = LBStore])

\* loadSeason3Data up to its await: the cached list if the queue has one.
Season3Read(l) ==
  /\ lbPc = "idle"
  /\ lbCalls' = lbCalls + 1
  /\ LbStoreUnchanged
  /\ UNCHANGED season
  /\ IF season.cache3[l.queue_id].has
     THEN SeasonReturn(l, season.cache3[l.queue_id].entries)
     ELSE LbGoto("s3_select", l) /\ lbRes' = NoLbRes

GetSeason3Leaderboard(q) ==
  Season3Read([NoLbLoc EXCEPT !.op = "getSeason3Leaderboard", !.queue_id = q,
                              !.pre = LBStore])

GetSeason3UserRank(q, u) ==
  Season3Read([NoLbLoc EXCEPT !.op = "getSeason3UserRank", !.queue_id = q,
                              !.user_id = u, !.pre = LBStore])

\* loadSeason3Data after its await: the latest snapshot of the queue inside
\* the season window; none caches and returns []; a rejected query returns []
\* and caches nothing.
Season3Select ==
  LET q == lbLoc.queue_id
      rows == {n \in DOMAIN lbSnapshots :
                 /\ lbSnapshots[n].channelId = q
                 /\ lbSnapshots[n].timestamp >= SEASON_3_START_DATE
                 /\ lbSnapshots[n].timestamp < SEASON_4_START_DATE}
      latest == {n \in rows :
                   \A k \in rows : lbSnapshots[k].timestamp <= lbSnapshots[n].timestamp}
  IN /\ lbPc = "s3_select"
     /\ UNCHANGED lbCalls
     /\ \/ /\ UNCHANGED season
           /\ LbStoreUnchanged
           /\ SeasonReturn([lbLoc EXCEPT !.lookupsFailed = 1], <<>>)
        \/ /\ rows = {}
           /\ season3DataCacheSet(q, <<>>)
           /\ SeasonReturn(lbLoc, <<>>)
        \/ \E n \in latest :
             /\ season3DataCacheSet(q, lbSnapshots[n].data)
             /\ SeasonReturn([lbLoc EXCEPT !.source = "snapshot"], lbSnapshots[n].data)

\* redis holds the cache only: the keys are lost when the redis instance is
\* flushed or replaced, while the rows of the database stay. Taken between
\* two requests.
RedisFlush ==
  /\ lbPc = "idle"
  /\ \/ \E q \in Queues : lbCache[q].present \/ lbZSet[q].present
     \/ \E k \in DOMAIN lbUser : lbUser[k].present
  /\ lbCache' = [q \in Queues |-> NoKey]
  /\ lbZSet' = [q \in Queues |-> [NoKey EXCEPT !.value = {}]]
  /\ lbUser' = [k \in DOMAIN lbUser |->
                 [NoKey EXCEPT !.value = [entry |-> Entry("", 0, 0), queue_id |-> ""]]]
  /\ UNCHANGED <<lbSnapshots, lbMeta, lbBackup, lbPc, lbLoc, lbCalls, lbRes>>

\* Time passes between two steps: a millisecond (at most MaxTime of them in
\* a row), or a whole cache lifetime.
Advance ==
  /\ \E t \in {now + 1, now + CACHE_TTL * MsPerSecond} :
       /\ t <= horizon
       /\ t % (CACHE_TTL * MsPerSecond) <= MaxTime
       /\ now' = t
  /\ UNCHANGED lbvars

\* ------------------------------------------------------------ rating formulas
\* updateRatings evaluates the formulas on the two ratings it read:
\* expectedScore1 = calculateExpectedScore(r1, r2), expectedScore2 =
\* calculateExpectedScore(r2, r1), then calculateNewRating for player 1.
NoElo == [pc |-> "off", playerRating |-> 0, opponentRating |-> 0, actual2 |-> 0,
          gamesPlayed |-> 0, expectedScore |-> <<0, 1>>, opponentExpected |-> <<0, 1>>,
          newRating |-> 0]

ExpectedScores ==
  /\ elo.pc = "start"
  /\ elo' = [elo EXCEPT
       !.pc = "scored",
       !.expectedScore = calculateExpectedScore(elo.playerRating, elo.opponentRating),
       !.opponentExpected = calculateExpectedScore(elo.opponentRating, elo.playerRating)]

NewRating ==
  /\ elo.pc = "scored"
  /\ elo' = [elo EXCEPT
       !.pc = "done",
       !.newRating = calculateNewRating(elo.playerRating, elo.expectedScore,
                                        elo.actual2, elo.gamesPlayed)]

\* ------------------------------------------------------------ specifications
InitQueue(players, h) ==
  /\ queue_entries = <<>>
  /\ matches = <<>>
  /\ player_ratings = [k \in players \X Modes |-> NoRating]
  /\ playerState = [p \in players |-> NoState]
  /\ emitted = [p \in players |-> 0]
  /\ now = 0
  /\ pc = [i \in Procs |-> "idle"]
  /\ loc = [i \in Procs |-> NoLoc]
  /\ ncalls = 0
  /\ horizon = h
  /\ solo = NoWin
  /\ done = NoDone
  /\ last = NoCall
  /\ mpw = NoMpWin
  /\ mpdone = NoMpDone

InitLBWith(file) ==
  /\ season = [NoSeason EXCEPT !.file = file]
  /\ lbCache = [q \in Queues |-> NoKey]
  /\ lbZSet = [q \in Queues |-> [NoKey EXCEPT !.value = {}]]
  /\ lbUser = [k \in UserIds \X Queues |->
                [NoKey EXCEPT !.value = [entry |-> Entry("", 0, 0), queue_id |-> ""]]]
  /\ lbSnapshots = <<>>
  /\ lbMeta = {}
  /\ lbBackup = [q \in Queues |-> NoRow]
  /\ lbPc = "idle"
  /\ lbLoc = NoLbLoc
  /\ lbCalls = 0
  /\ lbRes = NoLbRes

InitLB == InitLBWith(<<>>)

Init == InitQueue(1..NumPlayers, MaxTime) /\ InitLB /\ elo = NoElo

AllIdle == \A j \in Procs : pc[j] = "idle"

\* A new request takes the lowest free handler slot (the slots are
\* interchangeable).
FreeSlot(i) == pc[i] = "idle" /\ \A j \in Procs : j < i => pc[j] # "idle"

\* The queue service touches neither the leaderboard nor the clock bound.
QFrame == UNCHANGED <<horizon, lbvars, elo>>

\* Queue membership: up to MaxCalls joinQueue, leaveQueue and matchPlayers
\* requests, issued for any player and mode, overlapping in any way.
CanCall(i) == ncalls < MaxCalls /\ FreeSlot(i)

Next ==
  \E i \in Procs :
    \/ CanCall(i) /\ (\E p \in PlayerIds, m \in Modes : JoinCheck(i, p, m)) /\ QFrame
    \/ CanCall(i) /\ (\E p \in PlayerIds : LeaveUpdate(i, p)) /\ QFrame
    \/ CanCall(i) /\ (\E m \in Modes : MatchPlayersCall(i, m)) /\ QFrame
    \/ JoinInsert(i) /\ QFrame
    \/ JoinState(i) /\ QFrame
    \/ MatchSelect(i) /\ QFrame
    \/ MatchGameNumber(i) /\ QFrame
    \/ MatchInsert(i) /\ QFrame
    \/ MatchUpdateEntries(i) /\ QFrame
    \/ MatchState1(i) /\ QFrame
    \/ MatchState2(i) /\ QFrame
    \/ LeaveState(i) /\ QFrame

Spec == Init /\ [][Next]_vars

\* Every player issues one joinQueue for the same mode, up to NumProcs of the
\* requests running at the same time (the players are numbered in the order
\* in which their requests arrive).
CallFourJoin(i) ==
  /\ ncalls < Cardinality(PlayerIds)
  /\ FreeSlot(i)
  /\ JoinCheck(i, ncalls + 1, "standard")

NextFourJoin ==
  \E i \in Procs :
    \/ CallFourJoin(i) /\ QFrame
    \/ JoinInsert(i) /\ QFrame
    \/ JoinState(i) /\ QFrame
    \/ MatchSelect(i) /\ QFrame
    \/ MatchGameNumber(i) /\ QFrame
    \/ MatchInsert(i) /\ QFrame
    \/ MatchUpdateEntries(i) /\ QFrame
    \/ MatchState1(i) /\ QFrame
    \/ MatchState2(i) /\ QFrame

\* NumJoiners players, all within one clock reading.
InitFourJoin == InitQueue(1..NumJoiners, 0) /\ InitLB /\ elo = NoElo

SpecFourJoin == InitFourJoin /\ [][NextFourJoin]_vars

\* NumFifo players, the clock advancing up to MaxFifoTime.
InitFifo == InitQueue(1..NumFifo, MaxFifoTime) /\ InitLB /\ elo = NoElo

SpecFifo == InitFifo /\ [][NextFourJoin]_vars

\* Two players are paired by two joinQueue requests issued one after the
\* other; then up to MaxCompletes completeMatch requests arrive, for any
\* match id (also one that does not exist) and any winner, overlapping in
\* any way.
CallPair(i) ==
  /\ FreeSlot(i)
  /\ Len(queue_entries) < 2
  /\ AllIdle
  /\ JoinCheck(i, Len(queue_entries) + 1, "standard")

CallComplete(i) ==
  /\ FreeSlot(i)
  /\ Len(matches) > 0
  /\ ncalls < 2 + MaxCompletes
  /\ \E k \in 1..(Len(matches) + 1), w \in PlayerIds \cup {0} : CompleteUpdate(i, k, w)

NextComplete ==
  \E i \in Procs :
    \/ CallPair(i) /\ QFrame
    \/ CallComplete(i) /\ QFrame
    \/ JoinInsert(i) /\ QFrame
    \/ JoinState(i) /\ QFrame
    \/ MatchSelect(i) /\ QFrame
    \/ MatchGameNumber(i) /\ QFrame
    \/ MatchInsert(i) /\ QFrame
    \/ MatchUpdateEntries(i) /\ QFrame
    \/ MatchState1(i) /\ QFrame
    \/ MatchState2(i) /\ QFrame
    \/ CompleteState1(i) /\ QFrame
    \/ CompleteState2(i) /\ QFrame
    \/ RatingGet1(i) /\ QFrame
    \/ RatingInsert1(i) /\ QFrame
    \/ RatingGet2(i) /\ QFrame
    \/ RatingInsert2(i) /\ QFrame
    \/ RatingUpdate1(i) /\ QFrame
    \/ RatingUpdate2(i) /\ QFrame

SpecComplete == Init /\ [][NextComplete]_vars

\* Up to MaxSeqCalls requests of any kind, for any player, mode, match and
\* winner, each issued when the one before has returned. A winner is null
\* (0) or the id of a user (matches.winnerId references users.id): a player
\* of the match or another user, NumPlayers + 1, who never joins.
Winners == PlayerIds \cup {0, NumPlayers + 1}

CanCallSeq(i) == ncalls < MaxSeqCalls /\ AllIdle /\ FreeSlot(i)

NextSequential ==
  \E i \in Procs :
    \/ CanCallSeq(i) /\ (\E p \in PlayerIds, m \in Modes : JoinCheck(i, p, m)) /\ QFrame
    \/ CanCallSeq(i) /\ (\E p \in PlayerIds : LeaveUpdate(i, p)) /\ QFrame
    \/ CanCallSeq(i) /\ (\E m \in Modes : MatchPlayersCall(i, m)) /\ QFrame
    \/ CanCallSeq(i) /\ (\E k \in 1..(Len(matches) + 1), w \in Winners :
                            CompleteUpdate(i, k, w)) /\ QFrame
    \/ CanCallSeq(i) /\ (\E p \in PlayerIds, m \in Modes : GetPlayerRating(i, p, m)) /\ QFrame
    \/ JoinInsert(i) /\ QFrame
    \/ JoinState(i) /\ QFrame
    \/ MatchSelect(i) /\ QFrame
    \/ MatchGameNumber(i) /\ QFrame
    \/ MatchInsert(i) /\ QFrame
    \/ MatchUpdateEntries(i) /\ QFrame
    \/ MatchState1(i) /\ QFrame
    \/ MatchState2(i) /\ QFrame
    \/ LeaveState(i) /\ QFrame
    \/ CompleteState1(i) /\ QFrame
    \/ CompleteState2(i) /\ QFrame
    \/ RatingGet1(i) /\ QFrame
    \/ RatingInsert1(i) /\ QFrame
    \/ RatingGet2(i) /\ QFrame
    \/ RatingInsert2(i) /\ QFrame
    \/ RatingUpdate1(i) /\ QFrame
    \/ RatingUpdate2(i) /\ QFrame

InitSequential == InitQueue(1..NumPlayers, 0) /\ InitLB /\ elo = NoElo

SpecSequential == InitSequential /\ [][NextSequential]_vars

\* Players 1 and 2 join 'standard', one request after the other, and their
\* match is completed, which creates their Rating rows. Then they join twice
\* more, which pairs them into two further matches, and each of these is
\* completed once, by completeMatch requests that may overlap.
CallRejoin(i) ==
  /\ FreeSlot(i)
  /\ AllIdle
  /\ Len(queue_entries) < NumRematchGames * NumPlayers
  /\ Len(queue_entries) = NumPlayers => matches[1].status = "completed"
  /\ JoinCheck(i, (Len(queue_entries) % NumPlayers) + 1, "standard")

CallCompleteEach(i) ==
  /\ FreeSlot(i)
  /\ Len(queue_entries) \in {NumPlayers, NumRematchGames * NumPlayers}
  /\ \A j \in Procs : pc[j] \notin {"jq_insert", "jq_state", "mp_select", "mp_gamenum",
                                      "mp_insert", "mp_update", "mp_state1", "mp_state2"}
  /\ \E k \in 1..Len(matches), w \in PlayerIds \cup {0} :
       /\ matches[k].status = "in_progress"
       /\ CompleteUpdate(i, k, w)

NextRematch ==
  \E i \in Procs :
    \/ CallRejoin(i) /\ QFrame
    \/ CallCompleteEach(i) /\ QFrame
    \/ JoinInsert(i) /\ QFrame
    \/ JoinState(i) /\ QFrame
    \/ MatchSelect(i) /\ QFrame
    \/ MatchGameNumber(i) /\ QFrame
    \/ MatchInsert(i) /\ QFrame
    \/ MatchUpdateEntries(i) /\ QFrame
    \/ MatchState1(i) /\ QFrame
    \/ MatchState2(i) /\ QFrame
    \/ CompleteState1(i) /\ QFrame
    \/ CompleteState2(i) /\ QFrame
    \/ RatingGet1(i) /\ QFrame
    \/ RatingInsert1(i) /\ QFrame
    \/ RatingGet2(i) /\ QFrame
    \/ RatingInsert2(i) /\ QFrame
    \/ RatingUpdate1(i) /\ QFrame
    \/ RatingUpdate2(i) /\ QFrame

SpecRematch == InitSequential /\ [][NextRematch]_vars

\* joinQueue and matchPlayers requests, one after the other, where the
\* update of the two entries may be rejected by the database.
NextPairFailure ==
  \E i \in Procs :
    \/ CanCallSeq(i) /\ (\E p \in PlayerIds, m \in Modes : JoinCheck(i, p, m)) /\ QFrame
    \/ CanCallSeq(i) /\ (\E m \in Modes : MatchPlayersCall(i, m)) /\ QFrame
    \/ JoinInsert(i) /\ QFrame
    \/ JoinState(i) /\ QFrame
    \/ MatchSelect(i) /\ QFrame
    \/ MatchGameNumber(i) /\ QFrame
    \/ MatchInsert(i) /\ QFrame
    \/ MatchUpdateEntries(i) /\ QFrame
    \/ MatchUpdateRejected(i) /\ QFrame
    \/ MatchState1(i) /\ QFrame
    \/ MatchState2(i) /\ QFrame

SpecPairFailure == InitSequential /\ [][NextPairFailure]_vars

\* As SpecComplete, but the two joinQueue requests come from any players
\* (also twice the same one) and may overlap, and one completeMatch request
\* follows.
CallJoinAny(i) ==
  /\ FreeSlot(i)
  /\ ncalls < 2
  /\ \E p \in PlayerIds : JoinCheck(i, p, "standard")

CallCompleteOnce(i) ==
  /\ FreeSlot(i)
  /\ Len(matches) > 0
  /\ ncalls = 2
  /\ \E k \in 1..(Len(matches) + 1), w \in PlayerIds \cup {0} : CompleteUpdate(i, k, w)

NextCompleteAny ==
  \E i \in Procs :
    \/ CallJoinAny(i) /\ QFrame
    \/ CallCompleteOnce(i) /\ QFrame
    \/ JoinInsert(i) /\ QFrame
    \/ JoinState(i) /\ QFrame
    \/ MatchSelect(i) /\ QFrame
    \/ MatchGameNumber(i) /\ QFrame
    \/ MatchInsert(i) /\ QFrame
    \/ MatchUpdateEntries(i) /\ QFrame
    \/ MatchState1(i) /\ QFrame
    \/ MatchState2(i) /\ QFrame
    \/ CompleteState1(i) /\ QFrame
    \/ CompleteState2(i) /\ QFrame
    \/ RatingGet1(i) /\ QFrame
    \/ RatingInsert1(i) /\ QFrame
    \/ RatingGet2(i) /\ QFrame
    \/ RatingInsert2(i) /\ QFrame
    \/ RatingUpdate1(i) /\ QFrame
    \/ RatingUpdate2(i) /\ QFrame

SpecCompleteAny == Init /\ [][NextCompleteAny]_vars

\* The rating formulas on every pair of ratings between MinElo and MaxElo
\* that are EloStep apart, for a loss, a draw and a win, on either side of the
\* provisional threshold.
EloRatings == {r \in MinElo..MaxElo : (r - MinElo) % EloStep = 0}

InitElo ==
  /\ InitQueue(1..NumPlayers, 0)
  /\ InitLB
  /\ elo \in {[NoElo EXCEPT !.pc = "start", !.playerRating = a, !.opponentRating = b,
                             !.actual2 = s, !.gamesPlayed = g] :
               a \in EloRatings, b \in EloRatings, s \in 0..2,
               g \in {PROVISIONAL_THRESHOLD - 1, PROVISIONAL_THRESHOLD}}

EloFrame == UNCHANGED <<now, qvars, lbvars>>

NextElo ==
  \/ ExpectedScores /\ EloFrame
  \/ NewRating /\ EloFrame

SpecElo == InitElo /\ [][NextElo]_vars

\* Rating updates requested through the ratings router: each call names two
\* players and a result; results cover 0, 0.5, 1 and 1.5.
Results2 == 0..MaxResult2

CallRating(i) ==
  /\ ncalls < MaxRatingCalls
  /\ FreeSlot(i)
  /\ \E p1 \in PlayerIds, p2 \in PlayerIds, r \in Results2 :
       UpdateRatingsCall(i, p1, p2, "standard", r)

NextRatings ==
  \/ \E i \in Procs : CallRating(i) /\ QFrame
  \/ \E i \in Procs : RatingGet1(i) /\ QFrame
  \/ \E i \in Procs : RatingInsert1(i) /\ QFrame
  \/ \E i \in Procs : RatingGet2(i) /\ QFrame
  \/ \E i \in Procs : RatingInsert2(i) /\ QFrame
  \/ \E i \in Procs : RatingUpdate1(i) /\ QFrame
  \/ \E i \in Procs : RatingUpdate2(i) /\ QFrame

SpecRatings == Init /\ [][NextRatings]_vars

\* Rating updates around the provisional threshold: each player starts with
\* no row or with the row of a player who has drawn 9 or 10 games against
\* 1000-rated opponents, and up to MaxProvisionalCalls updates with result 0,
\* 0.5 or 1 follow.
PriorGames == {0, PROVISIONAL_THRESHOLD - 1, PROVISIONAL_THRESHOLD}

Drew(g) ==
  IF g = 0 THEN NoRating
  ELSE [exists |-> TRUE, rating |-> DEFAULT_RATING, gamesPlayed |-> g, wins |-> 0,
        losses |-> 0, draws |-> g, peakRating |-> DEFAULT_RATING]

InitProvisional ==
  /\ queue_entries = <<>>
  /\ matches = <<>>
  /\ player_ratings \in
       {[k \in (1..NumPlayers) \X Modes |->
           IF k[2] = "standard" THEN Drew(g[k[1]]) ELSE NoRating] :
          g \in [1..NumPlayers -> PriorGames]}
  /\ playerState = [p \in 1..NumPlayers |-> NoState]
  /\ emitted = [p \in 1..NumPlayers |-> 0]
  /\ now = 0
  /\ pc = [i \in Procs |-> "idle"]
  /\ loc = [i \in Procs |-> NoLoc]
  /\ ncalls = 0
  /\ horizon = 0
  /\ solo = NoWin
  /\ done = NoDone
  /\ last = NoCall
  /\ mpw = NoMpWin
  /\ mpdone = NoMpDone
  /\ InitLB
  /\ elo = NoElo

CallProvisional(i) ==
  /\ ncalls < MaxProvisionalCalls
  /\ FreeSlot(i)
  /\ \E p1 \in PlayerIds, p2 \in PlayerIds, r \in 0..2 :
       UpdateRatingsCall(i, p1, p2, "standard", r)

NextProvisional ==
  \/ \E i \in Procs : CallProvisional(i) /\ QFrame
  \/ \E i \in Procs : RatingGet1(i) /\ QFrame
  \/ \E i \in Procs : RatingInsert1(i) /\ QFrame
  \/ \E i \in Procs : RatingGet2(i) /\ QFrame
  \/ \E i \in Procs : RatingInsert2(i) /\ QFrame
  \/ \E i \in Procs : RatingUpdate1(i) /\ QFrame
  \/ \E i \in Procs : RatingUpdate2(i) /\ QFrame

SpecProvisional == InitProvisional /\ [][NextProvisional]_vars

\* Up to MaxLBCalls leaderboard requests, one after the other, for any queue,
\* with every cache, upstream and database operation free to fail, while
\* the clock runs up to one cache lifetime and MaxTime milliseconds.
InitLeaderboard ==
  InitQueue(1..NumPlayers, CACHE_TTL * MsPerSecond + MaxTime) /\ InitLB /\ elo = NoElo

\* The leaderboard service touches no queue table; only Advance moves the clock.
LBFrame == UNCHANGED <<now, qvars, elo, season>>

NextLB ==
  \/ lbCalls < MaxLBCalls /\ (\E q \in Queues : GetLeaderboard(q)) /\ LBFrame
  \/ lbCalls < MaxLBCalls /\ (\E q \in Queues : RefreshLeaderboard(q)) /\ LBFrame
  \/ lbCalls < MaxLBCalls /\ (\E q \in Queues, u \in UserIds : GetUserRank(q, u)) /\ LBFrame
  \/ UserRankFallback /\ LBFrame
  \/ RefreshFetch /\ LBFrame
  \/ RefreshPipeline /\ LBFrame
  \/ RefreshSnapshot /\ LBFrame
  \/ RefreshMetaSnapshot /\ LBFrame
  \/ RefreshBackup /\ LBFrame
  \/ RefreshFallback /\ LBFrame
  \/ GetFallback /\ LBFrame
  \/ RedisFlush /\ LBFrame
  \/ Advance /\ UNCHANGED <<qvars, elo>>

SpecLB == InitLeaderboard /\ [][NextLB]_vars

\* Up to MaxSnapRefreshes refreshes, then up to MaxSnapQueries history queries
\* with a limit of at most MaxLimit.
NextSnapshots ==
  \/ /\ lbCalls < MaxSnapRefreshes
     /\ (\E q \in Queues : RefreshLeaderboard(q)) /\ LBFrame
  \/ /\ lbCalls < MaxSnapRefreshes + MaxSnapQueries
     /\ (\E q \in Queues, limit \in 0..MaxLimit : GetLeaderboardSnapshots(q, limit))
     /\ LBFrame
  \/ SnapshotsFromMetadata /\ LBFrame
  \/ RefreshFetch /\ LBFrame
  \/ RefreshPipeline /\ LBFrame
  \/ RefreshSnapshot /\ LBFrame
  \/ RefreshMetaSnapshot /\ LBFrame
  \/ RefreshBackup /\ LBFrame
  \/ RefreshFallback /\ LBFrame
  \/ Advance /\ UNCHANGED <<qvars, elo>>

SpecSnapshots == InitLeaderboard /\ [][NextSnapshots]_vars

\* Up to MaxSeasonRefreshes refreshes and then season reads, MaxSeasonCalls
\* requests in all; the snapshot file holds any of the boards.
InitSeasons ==
  /\ InitQueue(1..NumPlayers, CACHE_TTL * MsPerSecond + MaxTime)
  /\ \E file \in Boards : InitLBWith(file)
  /\ elo = NoElo

SeasonFrame == UNCHANGED <<now, qvars, elo>>

NextSeasons ==
  \/ /\ lbCalls < MaxSeasonRefreshes
     /\ (\E q \in Queues : RefreshLeaderboard(q)) /\ LBFrame
  \/ /\ lbCalls < MaxSeasonCalls
     /\ (\E q \in Queues : GetSeason2Leaderboard(q)) /\ SeasonFrame
  \/ /\ lbCalls < MaxSeasonCalls
     /\ (\E q \in Queues, u \in UserIds : GetSeason2UserRank(q, u)) /\ SeasonFrame
  \/ /\ lbCalls < MaxSeasonCalls
     /\ (\E q \in Queues : GetSeason3Leaderboard(q)) /\ SeasonFrame
  \/ /\ lbCalls < MaxSeasonCalls
     /\ (\E q \in Queues, u \in UserIds : GetSeason3UserRank(q, u)) /\ SeasonFrame
  \/ Season3Select /\ SeasonFrame
  \/ RefreshFetch /\ LBFrame
  \/ RefreshPipeline /\ LBFrame
  \/ RefreshSnapshot /\ LBFrame
  \/ RefreshMetaSnapshot /\ LBFrame
  \/ RefreshBackup /\ LBFrame
  \/ RefreshFallback /\ LBFrame
  \/ Advance /\ UNCHANGED <<qvars, elo>>

SpecSeasons == InitSeasons /\ [][NextSeasons]_vars

\* ------------------------------------------------------------------- claims
\* C1: in every reachable state each player has at most one queue entry with
\* status waiting, also when two joinQueue calls of one player overlap.
C1_AtMostOneWaiting ==
  \A p \in PlayerIds : Cardinality(WaitingOf(queue_entries, p)) <= 1

\* C2: once the joinQueue calls of four distinct players for one mode, two of
\* them running at a time, have all returned, there are exactly two matches,
\* each between two distinct players, and no player is in two matches.
C2_ExactlyTwoMatches ==
  (ncalls = NumJoiners /\ AllIdle) =>
    /\ Len(matches) = 2
    /\ \A k \in DOMAIN matches : matches[k].player1Id # matches[k].player2Id
    /\ \A j, k \in DOMAIN matches :
         j < k => {matches[j].player1Id, matches[j].player2Id}
                    \cap {matches[k].player1Id, matches[k].player2Id} = {}

\* C3: a match created later has a strictly larger gameNumber than every
\* match created earlier (so no two matches share a gameNumber).
C3_GameNumbersIncrease ==
  \A a, b \in DOMAIN matches : a < b => matches[a].gameNumber < matches[b].gameNumber

\* C4: a getLeaderboard call never ends in a rejection, whatever fails.
C4_NeverThrows ==
  lbRes.call.op = "getLeaderboard" => lbRes.outcome # "thrown"

\* C5: a getLeaderboard call that misses the cache and whose upstream fetch
\* fails answers with the data of the queue's backup row and isStale true, or
\* with the empty list and isStale true when the queue has no backup row; it
\* answers whenever a lookup of the backup row succeeds.
C5_FallbackOnMiss ==
  LET b == lbRes.call.pre.backup[lbRes.call.queue_id]
  IN (lbRes.call.op = "getLeaderboard" /\ lbRes.call.cacheMiss /\ lbRes.call.upstreamFailed) =>
       /\ lbRes.call.lookupsFailed < 2 => lbRes.outcome = "returned"
       /\ lbRes.outcome = "returned" =>
            /\ lbRes.isStale
            /\ lbRes.data = IF b.present THEN JSONparse(b.value).data ELSE <<>>

\* C5 happens: such a call has answered with a non-empty backup list.
C5_Witness ==
  /\ lbRes.call.op = "getLeaderboard"
  /\ lbRes.call.cacheMiss
  /\ lbRes.call.upstreamFailed
  /\ lbRes.outcome = "returned"
  /\ lbRes.call.pre.backup[lbRes.call.queue_id].present
  /\ lbRes.data # <<>>
  /\ lbRes.isStale

\* C6: no step changes the status or the matchId of a queue entry whose status
\* is matched or cancelled.
C6_TerminalStatuses ==
  [][\A e \in DOMAIN queue_entries :
       queue_entries[e].status \in {"matched", "cancelled"} =>
         /\ queue_entries'[e].status = queue_entries[e].status
         /\ queue_entries'[e].matchId = queue_entries[e].matchId]_vars

C8_LeaveTwice ==
  LET p == done.args.playerId
      had == \E e \in DOMAIN done.pre.queue_entries :
               /\ done.pre.queue_entries[e].playerId = p
               /\ done.pre.queue_entries[e].status = "waiting"
  IN done.op = "leaveQueue" =>
       /\ done.ret \in {0, 1}
       /\ had => done.ret = 1
       /\ (done.prev.op = "leaveQueue" /\ done.prev.args = done.args) =>
            /\ done.ret = 0
            /\ queue_entries = done.pre.queue_entries
            /\ playerState = done.pre.playerState
            /\ emitted = done.pre.emitted

\* C8 happens: leaveQueue(p) has returned true and then false.
C8_Witness ==
  /\ done.op = "leaveQueue"
  /\ done.prev.op = "leaveQueue"
  /\ done.prev.args = done.args
  /\ done.prev.ret = 1
  /\ done.ret = 0

\* C9: a matchPlayers(mode) invocation that starts with at least three
\* waiting entries of the mode, the oldest joined before the second oldest
\* and that one before all others, creates one match with player1 the oldest
\* entry's player and player2 the second oldest's, marks those two entries
\* matched and leaves every other entry as it was (still waiting).
C9_FifoPairing ==
  LET pre == mpdone.pre.queue_entries
      W == WaitingIn(pre, mpdone.gameMode)
  IN \A e1, e2 \in W :
       (/\ mpdone.gameMode # ""
        /\ Cardinality(W) >= 3
        /\ pre[e1].joinedAt < pre[e2].joinedAt
        /\ \A c \in W \ {e1, e2} : pre[e2].joinedAt < pre[c].joinedAt) =>
         /\ mpdone.ret = Len(mpdone.pre.matches) + 1
         /\ Len(matches) = Len(mpdone.pre.matches) + 1
         /\ matches[mpdone.ret].player1Id = pre[e1].playerId
         /\ matches[mpdone.ret].player2Id = pre[e2].playerId
         /\ queue_entries[e1].status = "matched"
         /\ queue_entries[e2].status = "matched"
         /\ \A c \in DOMAIN pre : c \notin {e1, e2} => queue_entries[c] = pre[c]

\* C9 happens: an invocation that started with three waiting entries joined
\* at three different times has created a match.
C9_Witness ==
  LET pre == mpdone.pre.queue_entries
      W == WaitingIn(pre, mpdone.gameMode)
  IN /\ mpdone.gameMode # ""
     /\ Cardinality(W) = 3
     /\ \A c, d \in W : c # d => pre[c].joinedAt # pre[d].joinedAt
     /\ mpdone.ret # 0
     /\ Cardinality(WaitingIn(queue_entries, mpdone.gameMode)) = 1

\* C10: once a match is completed no step changes its winnerId or its
\* completedAt, and no player's gamesPlayed exceeds the number of matches.
C10_CompletedOnce ==
  [][/\ \A k \in DOMAIN matches :
          matches[k].status = "completed" =>
            /\ matches'[k].winnerId = matches[k].winnerId
            /\ matches'[k].completedAt = matches[k].completedAt
     /\ \A key \in DOMAIN player_ratings :
          player_ratings'[key].gamesPlayed <= Len(matches')]_vars

\* C11: a completeMatch call naming a match id that does not exist is
\* rejected, and leaves every match, PlayerState and Rating row, every queue
\* entry and every event count as it was.
C11_MissingMatchRejected ==
  (done.op = "completeMatch" /\ done.args.matchId \notin DOMAIN done.pre.matches) =>
    /\ done.ret = Thrown
    /\ matches = done.pre.matches
    /\ playerState = done.pre.playerState
    /\ player_ratings = done.pre.player_ratings
    /\ emitted = done.pre.emitted
    /\ queue_entries = done.pre.queue_entries

\* C11 happens: a completeMatch for a missing id was rejected while another
\* match existed.
C11_Witness ==
  /\ done.op = "completeMatch"
  /\ done.args.matchId \notin DOMAIN done.pre.matches
  /\ Len(done.pre.matches) > 0
  /\ done.ret = Thrown

\* C12: every Rating row has gamesPlayed = wins + losses + draws, after any
\* sequence of rating updates with any accepted numeric result.
C12_GamesPlayedIsSum ==
  \A key \in DOMAIN player_ratings :
    player_ratings[key].exists =>
      player_ratings[key].gamesPlayed =
        player_ratings[key].wins + player_ratings[key].losses + player_ratings[key].draws

\* C13: every Rating row has peakRating >= rating from its creation onward,
\* after wins, losses and concurrent updates of the same player.
C13_PeakAtLeastRating ==
  \A key \in DOMAIN player_ratings :
    player_ratings[key].exists =>
      player_ratings[key].peakRating >= player_ratings[key].rating

\* A row that went up and then down again while two updates were in flight.
C13_Witness ==
  \E key \in DOMAIN player_ratings :
    /\ player_ratings[key].exists
    /\ player_ratings[key].peakRating > DEFAULT_RATING
    /\ player_ratings[key].rating < player_ratings[key].peakRating
    /\ \A i \in Procs : pc[i] \in {"ur_upd1", "ur_upd2"}

\* C14: when the two players of a match have no Rating row and completeMatch
\* names player1 as the winner, player1 ends with rating 1032, peakRating 1032,
\* one win and one game, and player2 with rating 968, peakRating 1000, one
\* loss and one game.
C14_EndToEnd ==
  (/\ done.op = "completeMatch"
   /\ done.args.matchId \in DOMAIN done.pre.matches
   /\ LET mt == done.pre.matches[done.args.matchId]
      IN /\ mt.player1Id # mt.player2Id
         /\ done.args.winnerId = mt.player1Id
         /\ ~done.pre.player_ratings[<<mt.player1Id, mt.gameMode>>].exists
         /\ ~done.pre.player_ratings[<<mt.player2Id, mt.gameMode>>].exists) =>
    LET mt == done.pre.matches[done.args.matchId]
    IN /\ done.ret = done.args.matchId
       /\ player_ratings[<<mt.player1Id, mt.gameMode>>] =
            [exists |-> TRUE, rating |-> 1032, gamesPlayed |-> 1, wins |-> 1,
             losses |-> 0, draws |-> 0, peakRating |-> 1032]
       /\ player_ratings[<<mt.player2Id, mt.gameMode>>] =
            [exists |-> TRUE, rating |-> 968, gamesPlayed |-> 1, wins |-> 0,
             losses |-> 1, draws |-> 0, peakRating |-> 1000]

C14_Witness ==
  /\ done.op = "completeMatch"
  /\ done.args.matchId \in DOMAIN done.pre.matches
  /\ done.args.winnerId = done.pre.matches[done.args.matchId].player1Id
  /\ \A key \in DOMAIN done.pre.player_ratings : ~done.pre.player_ratings[key].exists
  /\ done.pre.matches[done.args.matchId].status = "in_progress"
  /\ done.ret = done.args.matchId

\* C15: data read from the backup record is returned with isStale true, and
\* data returned with isStale false was read from the cache or fetched by the
\* call, for getLeaderboard, refreshLeaderboard and getUserRank.
C15_StaleIffBackup ==
  lbRes.outcome = "returned" =>
    /\ lbRes.call.source = "backup" => lbRes.isStale
    /\ ~lbRes.isStale => lbRes.call.source \in {"cache", "fetch"}

\* C16: getUserRank returns null only if the user has no entry in the cache,
\* in the list the call fetched and in the backup record.
C16_NullOnlyIfAbsent ==
  (lbRes.call.op = "getUserRank" /\ lbRes.outcome = "null") =>
    LET q == lbRes.call.queue_id
        u == lbRes.call.user_id
    IN /\ ~lbUser[<<u, q>>].present
       /\ ~(lbRes.call.fetched /\ FindEntry(lbRes.call.fresh, u) # <<>>)
       /\ ~(lbBackup[q].present /\ FindEntry(JSONparse(lbBackup[q].value).data, u) # <<>>)

\* C17 as stated: a refreshLeaderboard call whose upstream fetch succeeded
\* returns the fetched list with isStale false and leaves the queue's backup
\* record holding the fetched list.
C17_FetchedIsReturned ==
  (lbRes.call.op = "refreshLeaderboard" /\ lbRes.call.fetched) =>
    /\ lbRes.outcome = "returned"
    /\ ~lbRes.isStale
    /\ lbRes.data = lbRes.call.fresh
    /\ lbBackup[lbRes.call.queue_id].present
    /\ JSONparse(lbBackup[lbRes.call.queue_id].value).data = lbRes.call.fresh

\* C17: a refreshLeaderboard call whose upstream fetch and whose cache and
\* database writes all succeed returns the fetched list with isStale false,
\* having written it to the queue's cache key, appended one snapshot of the
\* queue and overwritten the queue's backup record with it; cache, sorted set,
\* user hashes and backup of every other queue are as before the call. When
\* a write failed after the fetch, the call returns the backup record's list
\* (the empty list without a record) with isStale true, or rejects, and no
\* backup record has changed.
C17_RefreshWritesAll ==
  [][(/\ lbPc # "idle" /\ lbPc' = "idle"
      /\ lbLoc.op = "refreshLeaderboard"
      /\ lbLoc.fetched) =>
       LET q == lbLoc.queue_id
       IN IF lbLoc.writeFailed
          THEN /\ lbBackup' = lbLoc.pre.backup
               /\ lbRes'.outcome \in {"returned", "thrown"}
               /\ lbRes'.outcome = "returned" =>
                    /\ lbRes'.isStale
                    /\ lbRes'.data = IF lbBackup[q].present
                                     THEN JSONparse(lbBackup[q].value).data ELSE <<>>
          ELSE
          /\ lbRes'.outcome = "returned"
          /\ lbRes'.data = lbLoc.fresh
          /\ ~lbRes'.isStale
          /\ lbCache'[q].present
          /\ JSONparse(lbCache'[q].value) = lbLoc.fresh
          /\ lbSnapshots' = Append(lbLoc.pre.snapshots,
                [channelId |-> q, timestamp |-> lbLoc.timestamp, data |-> lbLoc.fresh])
          /\ lbBackup'[q].present
          /\ JSONparse(lbBackup'[q].value).data = lbLoc.fresh
          /\ \A o \in Queues \ {q} :
               /\ lbCache'[o] = lbLoc.pre.cache[o]
               /\ lbZSet'[o] = lbLoc.pre.zset[o]
               /\ lbBackup'[o] = lbLoc.pre.backup[o]
               /\ \A u \in UserIds : lbUser'[<<u, o>>] = lbLoc.pre.user[<<u, o>>]]_vars

\* A refresh that replaced an older backup of the queue by a different list.
C17_Witness ==
  /\ lbRes.call.op = "refreshLeaderboard"
  /\ lbRes.call.fetched /\ ~lbRes.call.writeFailed
  /\ lbRes.outcome = "returned" /\ ~lbRes.isStale
  /\ lbRes.data # <<>>
  /\ lbRes.call.pre.backup[lbRes.call.queue_id].present
  /\ JSONparse(lbRes.call.pre.backup[lbRes.call.queue_id].value).data # lbRes.data
  /\ JSONparse(lbBackup[lbRes.call.queue_id].value).data = lbRes.data

\* C18: every list getLeaderboard or refreshLeaderboard returns is in
\* non-increasing rating order and each entry's rank is its 1-based position.
C18_SortedAndRanked ==
  (lbRes.outcome = "returned" /\ lbRes.call.op \in {"getLeaderboard", "refreshLeaderboard"}) =>
    \A n \in DOMAIN lbRes.data :
      /\ lbRes.data[n].rank = n
      /\ n > 1 => lbRes.data[n - 1].mmr >= lbRes.data[n].mmr

\* C19 as stated: the new rating is above the current rating when the actual
\* score is above the expected score, equal to it when the two are equal, and
\* below it when the actual score is below the expected score.
C19_StrictSign ==
  elo.pc = "done" =>
    LET diff == elo.actual2 * elo.expectedScore[2] - 2 * elo.expectedScore[1]
    IN /\ diff > 0 => elo.newRating > elo.playerRating
       /\ diff = 0 => elo.newRating = elo.playerRating
       /\ diff < 0 => elo.newRating < elo.playerRating

\* C19: the new rating is never below the current rating when the actual score
\* is above the expected score, and above it exactly when
\* k * (actual - expected) >= 1/2; it is never above the current rating when
\* the actual score is below the expected score, and below it exactly when
\* k * (actual - expected) < -1/2; it is the current rating when the scores
\* are equal.
C19_SignAfterRounding ==
  elo.pc = "done" =>
    LET kFactor == IF elo.gamesPlayed < PROVISIONAL_THRESHOLD
                   THEN PROVISIONAL_K_FACTOR ELSE K_FACTOR
        diff == elo.actual2 * elo.expectedScore[2] - 2 * elo.expectedScore[1]
        half == elo.expectedScore[2]
    IN /\ diff > 0 => elo.newRating >= elo.playerRating
       /\ diff = 0 => elo.newRating = elo.playerRating
       /\ diff < 0 => elo.newRating <= elo.playerRating
       /\ elo.newRating > elo.playerRating <=> kFactor * diff >= half
       /\ elo.newRating < elo.playerRating <=> kFactor * diff < 0 - half

\* A win against a much weaker opponent that leaves the rating where it was.
C19_Witness ==
  /\ elo.pc = "done"
  /\ elo.actual2 = 2
  /\ elo.playerRating > elo.opponentRating
  /\ elo.newRating = elo.playerRating

\* C20: the expected scores of the two sides of a pairing add up to 1 (the
\* two fractions have one denominator, which their numerators add up to), and
\* the expected score between equal ratings is 1/2.
C20_ExpectedScoresSumToOne ==
  elo.pc \in {"scored", "done"} =>
    /\ elo.expectedScore[2] = elo.opponentExpected[2]
    /\ elo.expectedScore[1] + elo.opponentExpected[1] = elo.expectedScore[2]
    /\ elo.playerRating = elo.opponentRating => 2 * elo.expectedScore[1] = elo.expectedScore[2]

C20_Witness ==
  /\ elo.pc = "scored"
  /\ elo.playerRating < elo.opponentRating
  /\ 2 * elo.expectedScore[1] < elo.expectedScore[2]
  /\ 2 * elo.opponentExpected[1] > elo.opponentExpected[2]

\* C21 (the part about the order, the bound and the queue): the snapshots
\* getLeaderboardSnapshots(queueId, limit) returns are at most limit, all of
\* queueId, and ordered from the most recent timestamp to the oldest.
C21_SnapshotsOfQueue ==
  (lbRes.call.op = "getLeaderboardSnapshots" /\ lbRes.outcome = "returned") =>
    /\ Len(lbRes.data) <= lbRes.call.limit
    /\ \A n \in DOMAIN lbRes.data : lbRes.data[n].queue_id = lbRes.call.queue_id
    /\ \A n \in DOMAIN lbRes.data :
         n > 1 => ~StringLess(lbRes.data[n - 1].timestamp, lbRes.data[n].timestamp)

\* C22: a season read (getSeason2Leaderboard, getSeason2UserRank,
\* getSeason3Leaderboard, getSeason3UserRank) writes nothing to the cache, the
\* sorted set, the user hashes, the snapshot table, the metadata snapshots or
\* the backup record, and never enters refreshLeaderboard or contacts the
\* upstream source: each of its steps leaves the stores as they are and ends
\* either returned or waiting for its one select.
SeasonOps == {"getSeason2Leaderboard", "getSeason2UserRank",
              "getSeason3Leaderboard", "getSeason3UserRank"}
C22_SeasonReadsReadOnly ==
  [][(lbLoc.op \in SeasonOps \/ lbLoc'.op \in SeasonOps
        \/ (lbCalls' # lbCalls /\ lbRes'.call.op \in SeasonOps)) =>
       /\ LBStore' = LBStore
       /\ lbPc' \in {"idle", "s3_select"}
       /\ ~lbLoc'.fetched /\ ~lbRes'.call.fetched]_vars
\* A season 3 read returned a non-empty list loaded from a snapshot that an
\* earlier refresh stored.
C22_Witness ==
  /\ lbRes.call.op \in SeasonOps
  /\ lbRes.call.source = "snapshot"
  /\ lbRes.outcome = "returned"
  /\ lbRes.data # <<>>

\* C23: a matchPlayers(mode) invocation that starts with waiting entries of
\* the mode of which two or more have the same joinedAt and that creates a
\* match pairs exactly the two entries that are smallest under the order
\* (joinedAt, id).
C23_TieBreakById ==
  LET pre == mpdone.pre.queue_entries
      W == WaitingIn(pre, mpdone.gameMode)
      before(a, b) == \/ pre[a].joinedAt < pre[b].joinedAt
                      \/ pre[a].joinedAt = pre[b].joinedAt /\ a < b
      smallest == {e \in W : Cardinality({c \in W : before(c, e)}) < 2}
  IN (/\ mpdone.gameMode # ""
      /\ mpdone.ret # 0
      /\ \E a, b \in W : a # b /\ pre[a].joinedAt = pre[b].joinedAt) =>
       \A e \in W : queue_entries[e].status = "matched" <=> e \in smallest

\* C24: a matchPlayers(mode) invocation that returns a match has appended
\* exactly one match, of status in_progress and of the requested mode; exactly
\* two queue entries differ from before, both were waiting entries of that
\* mode and are now matched with matchId the new match's id, and they are the
\* entries of the match's two players; both players' PlayerState is in_game
\* with opponentId the other player.
C24_MatchCreated ==
  LET pre == mpdone.pre
      changed == {e \in DOMAIN pre.queue_entries : queue_entries[e] # pre.queue_entries[e]}
      match == matches[mpdone.ret]
  IN (mpdone.gameMode # "" /\ mpdone.ret # 0) =>
       /\ Len(matches) = Len(pre.matches) + 1
       /\ mpdone.ret = Len(matches)
       /\ \A k \in DOMAIN pre.matches : matches[k] = pre.matches[k]
       /\ match.status = "in_progress"
       /\ match.gameMode = mpdone.gameMode
       /\ Len(queue_entries) = Len(pre.queue_entries)
       /\ Cardinality(changed) = 2
       /\ \A e \in changed :
            /\ pre.queue_entries[e].status = "waiting"
            /\ pre.queue_entries[e].gameMode = mpdone.gameMode
            /\ queue_entries[e] = [pre.queue_entries[e] EXCEPT !.status = "matched",
                                                              !.matchId = mpdone.ret]
       /\ \E e1, e2 \in changed :
            /\ e1 # e2
            /\ pre.queue_entries[e1].playerId = match.player1Id
            /\ pre.queue_entries[e2].playerId = match.player2Id
       /\ playerState[match.player1Id].status = "in_game"
       /\ playerState[match.player1Id].opponentId = match.player2Id
       /\ playerState[match.player2Id].status = "in_game"
       /\ playerState[match.player2Id].opponentId = match.player1Id
\* A matchPlayers("vanilla") invocation has paired two different players
\* while an entry of the other mode was waiting.
C24_Witness ==
  /\ mpdone.gameMode = "vanilla"
  /\ mpdone.ret # 0
  /\ matches[mpdone.ret].player1Id # matches[mpdone.ret].player2Id
  /\ WaitingIn(mpdone.pre.queue_entries, "standard") # {}

\* C25: a matchPlayers(mode) invocation that starts with fewer than two
\* waiting entries of the mode returns null and leaves the matches (hence the
\* next game number), the queue entries, the ratings, every PlayerState and
\* the published events as they were, however many entries wait in the other
\* mode.
C25_TooFewIsNoOp ==
  (/\ mpdone.gameMode # ""
   /\ Cardinality(WaitingIn(mpdone.pre.queue_entries, mpdone.gameMode)) < 2) =>
    /\ mpdone.ret = 0
    /\ Store = mpdone.pre
    /\ getNextGameNumber(matches) = getNextGameNumber(mpdone.pre.matches)
\* Such an invocation has returned while two entries of the other mode and
\* one of its own mode were waiting.
C25_Witness ==
  /\ mpdone.gameMode # ""
  /\ mpdone.ret = 0
  /\ Cardinality(WaitingIn(mpdone.pre.queue_entries, mpdone.gameMode)) = 1
  /\ \E m \in Modes : Cardinality(WaitingIn(mpdone.pre.queue_entries, m)) >= 2

\* C26: a completeMatch(matchId, winnerId) call that returns the match, with
\* winnerId player1, player2 or null, leaves both players' PlayerState idle
\* and each player's Rating row with gamesPlayed one more than before and
\* peakRating the maximum of the previous peak and the new rating; player1
\* has one more win and player2 one more loss when player1 won, the reverse
\* when player2 won, and each has one more draw when winnerId is null. A
\* player without a row counts as having the default row.
C26_CompleteEffects ==
  (/\ done.op = "completeMatch"
   /\ done.args.matchId \in DOMAIN done.pre.matches
   /\ done.ret = done.args.matchId) =>
    LET mt == done.pre.matches[done.args.matchId]
        w == done.args.winnerId
        before(p) == IF done.pre.player_ratings[<<p, mt.gameMode>>].exists
                     THEN done.pre.player_ratings[<<p, mt.gameMode>>]
                     ELSE newRating
        after(p) == player_ratings[<<p, mt.gameMode>>]
    IN w \in {mt.player1Id, mt.player2Id, 0} =>
         /\ playerState[mt.player1Id] = Idle
         /\ playerState[mt.player2Id] = Idle
         /\ \A p \in {mt.player1Id, mt.player2Id} :
              /\ after(p).gamesPlayed = before(p).gamesPlayed + 1
              /\ after(p).peakRating = Max(before(p).peakRating, after(p).rating)
         /\ w = mt.player1Id =>
              /\ after(mt.player1Id).wins = before(mt.player1Id).wins + 1
              /\ after(mt.player2Id).losses = before(mt.player2Id).losses + 1
         /\ w = mt.player2Id =>
              /\ after(mt.player2Id).wins = before(mt.player2Id).wins + 1
              /\ after(mt.player1Id).losses = before(mt.player1Id).losses + 1
         /\ w = 0 =>
              /\ after(mt.player1Id).draws = before(mt.player1Id).draws + 1
              /\ after(mt.player2Id).draws = before(mt.player2Id).draws + 1

\* C27: a joinQueue(p, mode) call made while p has a waiting entry, of the
\* requested mode or of another, returns a waiting entry of p and leaves the
\* queue entries (no row inserted), the matches (no pairing), the ratings,
\* every PlayerState (status and queueStartTime) and the published events as
\* they were.
C27_JoinWhileWaiting ==
  LET W == WaitingOf(done.pre.queue_entries, done.args.playerId)
  IN (done.op = "joinQueue" /\ W # {}) =>
       /\ done.ret \in W
       /\ Store = done.pre
\* Such a call has asked for a mode other than that of the player's waiting
\* entry, while an entry of another player was waiting in the requested mode.
C27_Witness ==
  LET W == WaitingOf(done.pre.queue_entries, done.args.playerId)
  IN /\ done.op = "joinQueue"
     /\ W # {}
     /\ done.ret \in W
     /\ \A e \in W : done.pre.queue_entries[e].gameMode # done.args.gameMode
     /\ WaitingIn(done.pre.queue_entries, done.args.gameMode) # {}

\* C28: a getLeaderboard(queueId) call whose cache read succeeds and finds the
\* raw key of the queue present and not expired returns at once the parsed
\* cached list with isStale false; the step contacts no upstream source
\* (the call never reaches the fetch) and leaves the cache, the sorted set, the
\* user hashes, the snapshots and the backup record as they were.
C28_CacheHitReadOnly ==
  [][LET c == IF lbPc' = "idle" THEN lbRes'.call ELSE lbLoc'
         k == lbCache[c.queue_id]
     IN (/\ lbCalls' # lbCalls
         /\ c.op = "getLeaderboard"
         /\ ~c.cacheFailed
         /\ k.present
         /\ k.expires => now < k.expiresAt) =>
          /\ lbPc' = "idle"
          /\ lbRes'.outcome = "returned"
          /\ ~lbRes'.isStale
          /\ lbRes'.data = JSONparse(k.value)
          /\ ~c.fetched
          /\ LBStore' = LBStore]_vars
\* A getLeaderboard call has returned a non-empty list from the cache.
C28_Witness ==
  /\ lbRes.call.op = "getLeaderboard"
  /\ lbRes.call.source = "cache"
  /\ lbRes.outcome = "returned"
  /\ lbRes.data # <<>>
  /\ lbPc = "idle"

\* C29: every raw list, sorted set and per-user hash present in the cache
\* carries an expiry no later than 180 seconds from now, and a getLeaderboard
\* or getUserRank call that answers from the cache has read a key that
\* carries an expiry.
C29_CacheEntriesExpire ==
  LET bounded(k) == k.present => (k.expires /\ k.expiresAt <= now + CACHE_TTL * MsPerSecond)
      q == lbRes.call.queue_id
      u == lbRes.call.user_id
  IN /\ \A qq \in Queues : bounded(lbCache[qq]) /\ bounded(lbZSet[qq])
     /\ \A k \in DOMAIN lbUser : bounded(lbUser[k])
     /\ (lbRes.call.op = "getLeaderboard" /\ lbRes.call.source = "cache") =>
          lbRes.call.pre.cache[q].expires
     /\ (lbRes.call.op = "getUserRank" /\ lbRes.call.source = "cache") =>
          lbRes.call.pre.user[<<u, q>>].expires

\* C30: the rating a rating update writes for a player uses the K-factor of
\* that player's own gamesPlayed as read before the update, 64 below 10 games
\* and 32 from 10 games on, whatever the opponent's count: when the two
\* ratings read are equal (expected score 0.5) the player's rating moves by
\* K/2 = 32 or 16 for a win, by 0 for a draw and by -K/2 for a loss.
C30_KFactorPerPlayer ==
  [][\A i \in Procs :
       LET l == loc[i]
           half(g) == IF g < PROVISIONAL_THRESHOLD
                      THEN PROVISIONAL_K_FACTOR \div 2 ELSE K_FACTOR \div 2
           even == l.player1Rating.rating = l.player2Rating.rating /\ l.result2 \in 0..2
       IN /\ (pc[i] = "ur_upd1" /\ pc'[i] = "ur_upd2" /\ even) =>
               player_ratings'[<<l.player1Id, l.gameMode>>].rating =
                 l.player1Rating.rating + half(l.player1Rating.gamesPlayed) * (l.result2 - 1)
          /\ (pc[i] = "ur_upd2" /\ pc'[i] = "idle" /\ even) =>
               player_ratings'[<<l.player2Id, l.gameMode>>].rating =
                 l.player2Rating.rating + half(l.player2Rating.gamesPlayed) * (1 - l.result2)]_vars
\* One update has been applied to a player in the eleventh game (K = 32, a
\* win worth 16) and to an opponent in the first (K = 64, a loss worth 32).
C30_Witness ==
  \E p, o \in PlayerIds :
    /\ player_ratings[<<p, "standard">>].gamesPlayed = PROVISIONAL_THRESHOLD + 1
    /\ player_ratings[<<p, "standard">>].rating = DEFAULT_RATING + 16
    /\ player_ratings[<<o, "standard">>].gamesPlayed = 1
    /\ player_ratings[<<o, "standard">>].rating = DEFAULT_RATING - 32

\* C31: a step changes the Rating rows only if it is a step of the rating
\* update of a completeMatch or updateRatings request (the insert of a
\* default row or the update of a player's row); the steps of joinQueue,
\* leaveQueue, matchPlayers and getPlayerRating leave every row as it is, and
\* no step removes a row.
RatingSteps == {"ur_ins1", "ur_ins2", "ur_upd1", "ur_upd2"}
C31_RatingsOnlyByUpdate ==
  [][/\ \A key \in DOMAIN player_ratings :
          player_ratings[key].exists => player_ratings'[key].exists
     /\ player_ratings' # player_ratings =>
          \E i \in Procs : /\ pc[i] \in RatingSteps
                           /\ pc'[i] # pc[i]
                           /\ loc[i].op \in {"completeMatch", "updateRatings"}]_vars
\* A completed match has written both players' rows and afterwards a
\* joinQueue, leaveQueue, matchPlayers or getPlayerRating call has returned.
C31_Witness ==
  /\ done.op \in {"joinQueue", "leaveQueue", "matchPlayers", "getPlayerRating"}
  /\ \E key \in DOMAIN player_ratings :
       player_ratings[key].exists /\ player_ratings[key].gamesPlayed > 0
  /\ player_ratings = done.pre.player_ratings

\* C32: in every state, each player is player1 or player2 of at most one
\* match whose status is in_progress.
InProgressOf(p) ==
  {k \in 1..Len(matches) : /\ matches[k].status = "in_progress"
                           /\ p \in {matches[k].player1Id, matches[k].player2Id}}
C32_OneMatchAtATime == \A p \in PlayerIds : Cardinality(InProgressOf(p)) <= 1

\* C33: whenever no request is in flight, every player's PlayerState is
\* queuing exactly when the player has a waiting entry and in_game exactly
\* when the player is in an in_progress match (and so idle, or absent,
\* otherwise).
HasWaiting(p) ==
  \E e \in 1..Len(queue_entries) :
    queue_entries[e].playerId = p /\ queue_entries[e].status = "waiting"
C33_StateAgreesWithStore ==
  AllIdle =>
    \A p \in PlayerIds :
      /\ playerState[p].status = "queuing" <=> HasWaiting(p)
      /\ playerState[p].status = "in_game" <=> InProgressOf(p) # {}

\* C34: whenever no request is in flight, gamesPlayed of every player and
\* game mode (0 when the player has no Rating row of the mode) is the number
\* of completed matches of that mode in which the player is player1 or
\* player2, also after completeMatch requests that overlapped.
CompletedOf(p, m) ==
  {k \in 1..Len(matches) : /\ matches[k].status = "completed"
                           /\ matches[k].gameMode = m
                           /\ p \in {matches[k].player1Id, matches[k].player2Id}}
C34_GamesPlayedCountsMatches ==
  AllIdle =>
    \A p \in PlayerIds, m \in Modes :
      player_ratings[<<p, m>>].gamesPlayed = Cardinality(CompletedOf(p, m))

\* C35: whenever no request is in flight, also after a matchPlayers whose
\* update of the entries was rejected: an entry has status matched exactly
\* when its matchId is set; a set matchId names an existing Match of which
\* the entry's player is player1 or player2; and every Match is the matchId
\* of exactly two matched entries.
MatchedEntriesOf(k) ==
  {e \in 1..Len(queue_entries) : /\ queue_entries[e].status = "matched"
                                 /\ queue_entries[e].matchId = k}
C35_EntriesMatchesConsistent ==
  AllIdle =>
    /\ \A e \in 1..Len(queue_entries) :
         /\ queue_entries[e].status = "matched" <=> queue_entries[e].matchId # 0
         /\ queue_entries[e].matchId # 0 =>
              /\ queue_entries[e].matchId \in 1..Len(matches)
              /\ queue_entries[e].playerId \in
                   {matches[queue_entries[e].matchId].player1Id,
                    matches[queue_entries[e].matchId].player2Id}
    /\ \A k \in 1..Len(matches) : Cardinality(MatchedEntriesOf(k)) = 2

\* C36: the winnerId of every completed match is null or the id of one of
\* its two players, and no player's draws were raised by a completeMatch
\* call that named another id.
C36_WinnerIsAPlayer ==
  /\ \A k \in 1..Len(matches) :
       matches[k].status = "completed" =>
         matches[k].winnerId \in {0, matches[k].player1Id, matches[k].player2Id}
  /\ (/\ done.op = "completeMatch"
      /\ done.ret # Thrown
      /\ done.args.matchId \in 1..Len(done.pre.matches)
      /\ done.args.winnerId \notin {0, done.pre.matches[done.args.matchId].player1Id,
                                   done.pre.matches[done.args.matchId].player2Id})
     => \A key \in DOMAIN player_ratings :
          player_ratings[key].draws = done.pre.player_ratings[key].draws

\* C37: a step changes a backup record only as the upsert of a
\* refreshLeaderboard whose fetch succeeded, and then the record of the
\* call's queue holds the list that fetch returned; the steps of the fallback
\* paths (the catch blocks of refreshLeaderboard and getLeaderboard and the
\* backup lookup of getUserRank) leave the cache, the snapshot table and the
\* backup records as they are.
FallbackSteps == {"rl_backup", "gl_backup", "gur_backup"}
C37_BackupOnlyFromFetch ==
  [][/\ lbBackup' # lbBackup =>
          /\ lbPc = "rl_upsert"
          /\ lbLoc.fetched
          /\ \A q \in Queues \ {lbLoc.queue_id} : lbBackup'[q] = lbBackup[q]
          /\ lbBackup'[lbLoc.queue_id].present
          /\ JSONparse(lbBackup'[lbLoc.queue_id].value).data = lbLoc.fresh
     /\ lbPc \in FallbackSteps => LBStore' = LBStore]_vars
\* A call has returned the list of a backup record after its fetch failed or
\* after a write failed, a record that an earlier refresh wrote with a
\* non-empty fetched list, and the record is as it was before the call.
C37_Witness ==
  /\ lbRes.outcome = "returned"
  /\ lbRes.isStale
  /\ lbRes.call.source = "backup"
  /\ lbRes.data # <<>>
  /\ lbBackup = lbRes.call.pre.backup
  /\ lbPc = "idle"

\* The step with which a refreshLeaderboard call made on its own returns a
\* response, and the three stores holding the list it returns.
RefreshReturns ==
  /\ lbPc # "idle" /\ lbPc' = "idle"
  /\ lbLoc.op = "refreshLeaderboard"
  /\ lbRes'.outcome = "returned"
ReturnedListStored ==
  LET q == lbLoc.queue_id
  IN /\ lbCache'[q].present
     /\ JSONparse(lbCache'[q].value) = lbRes'.data
     /\ lbSnapshots' # <<>>
     /\ lbSnapshots'[Len(lbSnapshots')].channelId = q
     /\ lbSnapshots'[Len(lbSnapshots')].data = lbRes'.data
     /\ \A n \in DOMAIN lbSnapshots' :
          lbSnapshots'[n].timestamp <= lbSnapshots'[Len(lbSnapshots')].timestamp
     /\ lbBackup'[q].present
     /\ JSONparse(lbBackup'[q].value).data = lbRes'.data

\* C38 as stated: when refreshLeaderboard returns isStale true, the cached
\* lists, the snapshot table and the backup records are as they were before
\* the call; when it returns isStale false, the cached list, the newest
\* snapshot and the backup record of the queue hold the returned list.
C38_AllOrNothing ==
  [][RefreshReturns =>
       IF lbRes'.isStale
       THEN /\ lbCache' = lbLoc.pre.cache
            /\ lbSnapshots' = lbLoc.pre.snapshots
            /\ lbBackup' = lbLoc.pre.backup
       ELSE ReturnedListStored]_vars

\* C38: when refreshLeaderboard returns isStale true, the backup records are
\* as they were before the call; the cache and the snapshot table are as
\* before too when the fetch failed, but after a fetch that succeeded a write
\* has failed and the writes made before it stay: the queue's cached list is
\* the earlier one or the fetched list, and the snapshot table is the earlier
\* one or has the fetched list appended. When it returns isStale false, the
\* cached list, the newest snapshot and the backup record of the queue hold
\* the returned list.
C38_StaleKeepsBackup ==
  [][RefreshReturns =>
       LET q == lbLoc.queue_id
       IN IF lbRes'.isStale
          THEN /\ lbBackup' = lbLoc.pre.backup
               /\ ~lbLoc.fetched => LBStore' = lbLoc.pre
               /\ lbLoc.fetched =>
                    /\ lbLoc.writeFailed
                    /\ \A o \in Queues \ {q} : lbCache'[o] = lbLoc.pre.cache[o]
                    /\ \/ lbCache'[q] = lbLoc.pre.cache[q]
                       \/ /\ lbCache'[q].present
                          /\ JSONparse(lbCache'[q].value) = lbLoc.fresh
                    /\ \/ lbSnapshots' = lbLoc.pre.snapshots
                       \/ lbSnapshots' = Append(lbLoc.pre.snapshots,
                            [channelId |-> q, timestamp |-> lbLoc.timestamp,
                             data |-> lbLoc.fresh])
          ELSE ReturnedListStored]_vars
\* A refreshLeaderboard call has returned isStale true after its fetch
\* succeeded and a later write failed, and the snapshot it inserted before
\* the failure is in the table.
C38_Witness ==
  /\ lbRes.call.op = "refreshLeaderboard"
  /\ lbRes.outcome = "returned"
  /\ lbRes.isStale
  /\ lbRes.call.fetched
  /\ lbRes.call.writeFailed
  /\ lbRes.call.fresh # <<>>
  /\ lbSnapshots # lbRes.call.pre.snapshots
  /\ lbBackup = lbRes.call.pre.backup
  /\ lbPc = "idle"

\* C39: when joinQueue, leaveQueue and completeMatch requests are issued one
\* after the other from an empty queue, then whenever no request is in
\* flight each game mode has at most one waiting entry.
WaitingInMode(m) ==
  {e \in 1..Len(queue_entries) : /\ queue_entries[e].status = "waiting"
                                 /\ queue_entries[e].gameMode = m}
C39_AtMostOneWaitingPerMode ==
  AllIdle => \A m \in Modes : Cardinality(WaitingInMode(m)) <= 1
\* As C39_AtMostOneWaitingPerMode, after a joinQueue that paired two players
\* and a later joinQueue that left its player waiting.
C39_Witness ==
  /\ AllIdle
  /\ Len(matches) > 0
  /\ done.op = "joinQueue"
  /\ \E m \in Modes : Cardinality(WaitingInMode(m)) = 1

====
